---- MODULE Spec2Model ----
(***************************************************************************)
(* A model of the resilience core of voice-control:                        *)
(*   - ProductionErrorHandler (voice_control/core/error_handler.py)        *)
(*   - ResourceManager        (voice_control/core/resource_manager.py)     *)
(*   - HealthMonitor          (voice_control/core/health_monitor.py)       *)
(* Every operation of the three classes is an action; callbacks supplied   *)
(* by the application (recovery strategies, fallback strategies, release   *)
(* functions, shutdown hooks, remediation strategies, probes of the        *)
(* operating system) are inputs whose outcome is drawn from a small set.   *)
(***************************************************************************)
EXTENDS Integers, Sequences, FiniteSets, TLC

VARIABLES
    now,                \* time.time(), in seconds
    \* ---- ProductionErrorHandler ----
    error_counts,       \* dict error_key -> int
    last_errors,        \* dict error_key -> float
    recovery_handlers,  \* dict error type -> handler
    fallback_handlers,  \* dict component -> handler (its key set)
    attrs,              \* optional attributes attached to the handler object
    error_history,      \* list of error records
    eh_calls,           \* number of handle_error calls made so far
    eh_setups,          \* number of registration calls made so far
    eh_ticks,           \* number of clock advances so far
    eh_streak,          \* per key: same-key failures in a row, each inside the window
    eh_last,            \* what the last handle_error call did (observation)
    eh_lock,            \* the handler's lock: "free", or the call holding it
    eh_report,          \* what the last statistics or export call did (observation)
    component_states,   \* dict component -> "healthy" or "unhealthy"
    eh_wrap,            \* what the last call of a wrapped function did (observation)
    shutdown_event,     \* self._shutdown_event is set
    \* ---- ResourceManager ----
    active_resources,   \* dict name -> resource info, in insertion order
    cleanup_handlers,   \* list of shutdown hooks
    rm_next_id,         \* identity of the next registration
    release_calls,      \* per registration: invocations of its cleanup function
    rm_ticks,           \* number of clock advances so far
    rm_last,            \* what the last registry call did (observation)
    rm_overwritten,     \* per registration replaced by a later one of its name: the
                        \* invocations of its cleanup function up to then (observation)
    pc,                 \* per thread: where it is inside a registry call
    local,              \* per thread: the local variables of that call
    rm_lock,            \* the registry's lock: "free", or the call blocked inside it
    \* ---- HealthMonitor ----
    hm_resource_manager,  \* whether the monitor was given a resource manager
    current_health,     \* dict component -> HealthCheck
    health_history,     \* list of HealthCheck
    remediation_handlers, \* dict component -> handler
    remediation_cooldown, \* dict component -> time of the last attempt
    check_count,
    remediation_count,
    last_full_check,
    remediation_log,    \* per component: the times its handler was invoked
    hm_setups,          \* number of registration calls made so far
    hm_ticks,           \* the cycle after which the clock last advanced
    hm_lock,            \* the monitor's lock: "free", or the call holding it
    hm_last,            \* what the last check, status or report call did (observation)
    \* ---- the monitoring loops of HealthMonitor and ResourceManager ----
    monitoring_active,  \* per monitor: the flag of that name
    monitoring_thread,  \* per monitor: the worker of the last start, 0 for None
    workers,            \* the loop threads created so far, each with its position
    mon_call,           \* the start/stop call in progress on the calling thread
    mon_starts,         \* number of start_monitoring calls made so far
    mon_cycles,         \* per monitor: number of loop iterations begun so far
    mon_last,           \* what the last start or stop call did (observation)
    \* ---- a call of a function decorated with retry_on_failure ----
    retry,              \* the wrapper's locals and the calls it has made so far
    \* ---- a call of a function decorated with critical_operation ----
    critical,           \* the wrapper's locals and the calls it has made so far
    \* ---- the module globals behind get_error_handler / get_resource_manager ----
    global_instance,    \* per accessor: the global, 0 for None, else an instance
    instances,          \* per accessor: the instances constructed so far, in order
    accessor_calls,     \* per thread: the accessor call in progress and the calls made
    accessor_returns,   \* per accessor: the values its calls have returned (observation)
    \* ---- threads inside perform_health_check ----
    hm_checkers,        \* per thread: its position in the call and its local checks
    hm_current_by,      \* the thread whose HealthCheck objects current_health holds
    \* ---- threads inside handle_error ----
    eh_threads,         \* per thread: its position in the call and its arguments
    eh_entries,         \* the passes through the lock region, in order (observation)
    \* ---- the main thread and the signal handler of the registry ----
    main_op,            \* the registry call the main thread is inside, holding the lock
    signal_state,       \* whether a signal was delivered and how its handler ended
    \* ---- VoiceControlEngine ----
    engine              \* shutdown_requested, running, and what its calls have done

ehVars == <<error_counts, last_errors, recovery_handlers, fallback_handlers,
            attrs, error_history, eh_calls, eh_setups, eh_ticks, eh_streak, eh_last,
            eh_lock, eh_report, component_states, eh_wrap, shutdown_event>>

rmVars == <<active_resources, cleanup_handlers, rm_next_id, release_calls,
            rm_ticks, rm_last, pc, local, rm_lock, rm_overwritten>>

hmVars == <<hm_resource_manager, current_health, health_history, remediation_handlers,
            remediation_cooldown, check_count, remediation_count, last_full_check,
            remediation_log, hm_setups, hm_ticks, hm_lock, hm_last>>

monVars == <<monitoring_active, monitoring_thread, workers, mon_call, mon_starts,
             mon_cycles, mon_last>>

glVars == <<global_instance, instances, accessor_calls, accessor_returns>>

\* The state of the threads and globals outside the three components.
hcVars == <<hm_checkers, hm_current_by>>

heVars == <<eh_threads, eh_entries>>

sgVars == <<main_op, signal_state>>

enVars == <<engine>>

threadVars == <<glVars, hcVars, heVars, sgVars, enVars>>

callVars == <<retry, critical, threadVars>>

vars == <<now, ehVars, rmVars, hmVars, monVars, callVars>>

-----------------------------------------------------------------------------
(* Bounds of the model *)

StartTime == 1000
MaxCalls == 6
MaxTicks == 1
MaxDispatchCalls == 1
MaxSetups == 1
MaxRegistrations == 2
MaxHooks == 2
MaxCycles == 3
MaxReportCycles == 1
MaxExportCalls == 2
MaxStarts == 2
MaxLoopCycles == 2
MaxRetries == 3
MaxRetryCalls == 2
MaxCriticalRetries == 2
MaxCriticalCalls == 1
MaxAccessorCalls == 2
MaxConcurrentCycles == 1
MaxConcurrentCalls == 6
MaxShutdownCalls == 2
MaxRemediationCycles == 2

-----------------------------------------------------------------------------
(* Program constants *)

error_threshold == 5
time_window == 300
max_error_history == 1000
stale_after == 600
old_after == 3600
idle_after == 1800
cooldown_period == 300
max_history_size == 1000
max_memory_mb == 500

-----------------------------------------------------------------------------
(* Python helpers *)

\* dict.get(key, default)
Get(d, k, default) == IF k \in DOMAIN d THEN d[k] ELSE default

\* d[k] = v on a dict
Put(d, k, v) == [x \in DOMAIN d \cup {k} |-> IF x = k THEN v ELSE d[x]]

\* lst[-n:]
LastN(s, n) == IF Len(s) <= n THEN s ELSE SubSeq(s, Len(s) - n + 1, Len(s))

EmptyDict == [x \in {} |-> 0]

-----------------------------------------------------------------------------
(* Failure values *)

RETRY == "retry"
FALLBACK == "fallback"
RESTART_COMPONENT == "restart_component"
GRACEFUL_DEGRADATION == "graceful_degradation"
SHUTDOWN == "shutdown"
RecoveryAction == {RETRY, FALLBACK, RESTART_COMPONENT, GRACEFUL_DEGRADATION, SHUTDOWN}

\* The value of recovery_action for an exception that has no such attribute.
NoAction == "no_attribute"

\* Exception classes: the VoiceControlError family carries recovery_action,
\* any other exception (ValueError) does not.
VoiceControlErrors == {"VoiceControlError", "AudioError", "RecognitionError",
                       "SystemError", "ConfigurationError"}
Kinds == VoiceControlErrors \cup {"ValueError"}

Contexts == {"loop", "input"}

\* An exception object: its class and its recovery_action attribute.
Errors == [kind : VoiceControlErrors, action : RecoveryAction]
            \cup [kind : {"ValueError"}, action : {NoAction}]

\* error_key = f"{type(error).__name__}:{context}"
ErrorKey(error, context) == <<error.kind, context>>

\* Outcomes of a call: a returned bool, or an exception.
True == "True"
False == "False"
Raise == "Raise"

\* What the callbacks of one handle_error call do when they are invoked.
Envs == [handler : {True, False, Raise},     \* a registered custom recovery strategy
         fallback : {"ok", Raise},           \* a registered fallback strategy
         feature : {"ok", Raise, "reenter"}, \* feature_manager.disable_non_essential()
         manager : {"ok", Raise},            \* audio_manager / config_manager call
         cleanup : {"ok", Raise}]            \* resource_manager.cleanup_all()

\* The result of a call: what it returned and the callbacks it invoked, in order.
Res(ret, trace) == [ret |-> ret, trace |-> trace]
After(pre, r) == [ret |-> r.ret, trace |-> pre \o r.trace]

-----------------------------------------------------------------------------
(* ProductionErrorHandler: the recovery strategies *)

\* _retry_operation: advisory only, the caller retries.
RetryOperation == Res(False, <<"retry">>)

\* _use_fallback(component)
UseFallback(component, env) ==
    IF component \in fallback_handlers
    THEN IF env.fallback = Raise
         THEN Res(False, <<"fallback">>)
         ELSE Res(True, <<"fallback">>)
    ELSE Res(False, <<>>)

\* _restart_component: a hook point, nothing is restarted.
RestartComponent == Res(False, <<"restart">>)

\* sum(d.values())
RECURSIVE SumValues(_)
SumValues(d) ==
    IF DOMAIN d = {} THEN 0
    ELSE LET k == CHOOSE x \in DOMAIN d : TRUE
         IN  d[k] + SumValues([x \in DOMAIN d \ {k} |-> d[x]])

\* The dict get_error_statistics builds inside its lock.
ErrorStatistics ==
    [error_counts |-> error_counts,
     recent_errors |-> {k \in DOMAIN last_errors : now - last_errors[k] < time_window},
     total_errors |-> SumValues(error_counts),
     error_types |-> Cardinality(DOMAIN error_counts)]

\* get_error_statistics() called while the lock is in state lock: the lock is a
\* threading.Lock, so the call blocks when it is held, also by its own caller.
GetErrorStatisticsUnder(lock) ==
    IF lock = "free"
    THEN [blocked |-> FALSE, statistics |-> ErrorStatistics]
    ELSE [blocked |-> TRUE]

\* _graceful_degradation(context) run while the handler's lock is in state
\* lock; a feature manager that reenters calls get_error_statistics() on the
\* same handler from disable_non_essential().
GracefulDegradationUnder(lock, env) ==
    IF "feature_manager" \in attrs
    THEN CASE env.feature = Raise ->
                Res(Raise, <<"degradation", "disable_non_essential">>)
           [] env.feature = "reenter" ->
                IF GetErrorStatisticsUnder(lock).blocked
                THEN Res("Blocked", <<"degradation", "disable_non_essential">>)
                ELSE Res(True, <<"degradation", "disable_non_essential",
                                 "get_error_statistics">>)
           [] OTHER ->
                Res(True, <<"degradation", "disable_non_essential">>)
    ELSE Res(True, <<"degradation">>)

\* _graceful_degradation(context) called with the lock free
GracefulDegradation(env) == GracefulDegradationUnder("free", env)

\* _graceful_shutdown(error, context)
GracefulShutdown(env) ==
    IF "resource_manager" \in attrs
    THEN IF env.cleanup = Raise
         THEN Res(Raise, <<"shutdown", "cleanup_all">>)
         ELSE Res(False, <<"shutdown", "cleanup_all">>)
    ELSE Res(False, <<"shutdown">>)

\* _default_recovery(error, context)
DefaultRecovery(env) == GracefulDegradation(env)

\* _execute_recovery_action(action, error, context): any exception of the
\* action is caught and reported as False.
ExecuteRecoveryAction(action, context, env) ==
    LET r == CASE action = RETRY -> RetryOperation
               [] action = FALLBACK -> UseFallback(context, env)
               [] action = RESTART_COMPONENT -> RestartComponent
               [] action = GRACEFUL_DEGRADATION -> GracefulDegradation(env)
               [] action = SHUTDOWN -> GracefulShutdown(env)
               [] OTHER -> Res(False, <<>>)
    IN  IF r.ret = Raise THEN Res(False, r.trace) ELSE r

\* _handle_audio_error
HandleAudioError(env) ==
    IF "audio_manager" \in attrs /\ env.manager # Raise
    THEN Res(True, <<"reinitialize">>)
    ELSE After(IF "audio_manager" \in attrs THEN <<"reinitialize">> ELSE <<>>,
               UseFallback("audio", env))

\* _handle_recognition_error
HandleRecognitionError(env) == UseFallback("recognition", env)

\* _handle_system_error: "input" in context.lower(), "tray" in context.lower()
HandleSystemError(context, env) ==
    IF context \in {"input"} THEN UseFallback("input", env)
    ELSE IF context \in {"tray"} THEN UseFallback("tray", env)
    ELSE GracefulDegradation(env)

\* _handle_config_error
HandleConfigError(env) ==
    IF "config_manager" \in attrs /\ env.manager # Raise
    THEN Res(True, <<"reset_to_defaults">>)
    ELSE Res(False, IF "config_manager" \in attrs THEN <<"reset_to_defaults">> ELSE <<>>)

\* self.recovery_handlers[error_type](error, context)
InvokeHandler(handler, context, env) ==
    After(<<"handler">>,
          CASE handler = "_handle_audio_error" -> HandleAudioError(env)
            [] handler = "_handle_recognition_error" -> HandleRecognitionError(env)
            [] handler = "_handle_system_error" -> HandleSystemError(context, env)
            [] handler = "_handle_config_error" -> HandleConfigError(env)
            [] OTHER -> Res(env.handler, <<>>))

\* The result of _attempt_recovery: a result r reached through the stages
\* in route (the handler registered under a key, the action of the failure,
\* the default recovery).
Routed(route, r) == [ret |-> r.ret, trace |-> r.trace, route |-> route]

\* _attempt_recovery(error, context)
AttemptRecovery(error, context, env) ==
    LET registered == error.kind \in DOMAIN recovery_handlers
        h == IF registered
             THEN InvokeHandler(recovery_handlers[error.kind], context, env)
             ELSE Res(Raise, <<>>)
        tried == IF registered THEN <<<<"handler", error.kind>>>> ELSE <<>>
    IN  IF registered /\ h.ret # Raise
        THEN Routed(tried, h)
        ELSE IF error.action # NoAction
             THEN Routed(Append(tried, <<"action", error.action>>),
                         After(h.trace, ExecuteRecoveryAction(error.action, context, env)))
             ELSE Routed(Append(tried, <<"default", "graceful_degradation">>),
                         After(h.trace, DefaultRecovery(env)))

\* _handle_critical_error(error, context), which handle_error calls inside its
\* `with self._lock` block
HandleCriticalError(env) ==
    LET d == GracefulDegradationUnder("handle_error", env)
    IN  IF d.ret \in {Raise, "Blocked"} THEN d
        ELSE IF d.ret = True THEN d
        ELSE After(d.trace, GracefulShutdown(env))

\* As _is_error_threshold_exceeded, but comparing count > error_threshold.
IsErrorThresholdExceeded_StrictlyAbove(counts, lasts, error_key, current_time) ==
    LET count == Get(counts, error_key, 0)
        last_time == Get(lasts, error_key, 0)
    IN  IF current_time - last_time > time_window
        THEN [counts |-> Put(counts, error_key, 1), exceeded |-> FALSE]
        ELSE [counts |-> counts, exceeded |-> count > error_threshold]

\* _is_error_threshold_exceeded(error_key), reading the dicts as they are and
\* time.time() as current_time; returns the count it leaves and its verdict.
IsErrorThresholdExceeded(counts, lasts, error_key, current_time) ==
    LET count == Get(counts, error_key, 0)
        last_time == Get(lasts, error_key, 0)
    IN  IF current_time - last_time > time_window
        THEN [counts |-> Put(counts, error_key, 1), exceeded |-> FALSE]
        ELSE [counts |-> counts, exceeded |-> count >= error_threshold]

\* The record add_error_to_history builds.
ErrorRecord(error, context, recovery_success) ==
    [timestamp |-> now,
     error_type |-> error.kind,
     context |-> context,
     recovery_action |-> IF error.action = NoAction THEN RETRY ELSE error.action,
     recovery_success |-> recovery_success]

\* As add_error_to_history, but without the trim to max_error_history.
AddErrorToHistory_Unbounded(history, error, context, recovery_success) ==
    Append(history, ErrorRecord(error, context, recovery_success))

\* add_error_to_history(error, context, recovery_success)
AddErrorToHistory(history, error, context, recovery_success) ==
    LastN(Append(history, ErrorRecord(error, context, recovery_success)),
          max_error_history)

-----------------------------------------------------------------------------
(* ProductionErrorHandler: the operations *)

\* _register_default_handlers
DefaultHandlers ==
    [k \in {"AudioError", "RecognitionError", "SystemError", "ConfigurationError"} |->
        CASE k = "AudioError" -> "_handle_audio_error"
          [] k = "RecognitionError" -> "_handle_recognition_error"
          [] k = "SystemError" -> "_handle_system_error"
          [] OTHER -> "_handle_config_error"]

NoCall == [called |-> FALSE]

\* ProductionErrorHandler.__init__
InitErrorHandlerWith(history) ==
    /\ error_counts = EmptyDict
    /\ last_errors = EmptyDict
    /\ recovery_handlers = DefaultHandlers
    /\ fallback_handlers = {}
    /\ attrs = {}
    /\ error_history = history
    /\ eh_calls = 0
    /\ eh_setups = 0
    /\ eh_ticks = 0
    /\ eh_streak = EmptyDict
    /\ eh_last = NoCall
    /\ eh_lock = "free"
    /\ eh_report = [op |-> "none"]
    /\ component_states = EmptyDict
    /\ eh_wrap = [op |-> "none"]
    /\ shutdown_event = FALSE

\* ProductionErrorHandler.__init__
InitErrorHandler == InitErrorHandlerWith(<<>>)

\* The history after n failures of one kind were recorded, one per second,
\* before the run starts; reset_error_counts() has cleared the counters since.
ErrorFill(n) ==
    [i \in 1..n |-> [timestamp |-> i - 1,
                     error_type |-> "RecognitionError",
                     context |-> "loop",
                     recovery_action |-> RETRY,
                     recovery_success |-> FALSE]]

\* As the increment, but storing the count that was read.
CountError_NoIncrement(counts, error_key) ==
    Put(counts, error_key, Get(counts, error_key, 1))

\* self.error_counts[error_key] = self.error_counts.get(error_key, 0) + 1
CountError(counts, error_key) ==
    Put(counts, error_key, Get(counts, error_key, 0) + 1)

\* What handle_error(error, context) does to the handler when it is entered
\* with the lock free; env is what the callbacks it reaches do.
HandleErrorEffect(error, context, env) ==
    LET error_key == ErrorKey(error, context)
        seen == error_key \in DOMAIN last_errors
        gap == IF seen THEN now - last_errors[error_key] ELSE 0
        counts1 == CountError(error_counts, error_key)
        lasts1 == Put(last_errors, error_key, now)
        t == IsErrorThresholdExceeded(counts1, lasts1, error_key, now)
        r == IF t.exceeded THEN HandleCriticalError(env)
                           ELSE AttemptRecovery(error, context, env)
        history1 == IF t.exceeded \/ r.ret = Raise
                    THEN error_history
                    ELSE AddErrorToHistory(error_history, error, context, r.ret = True)
        streak1 == IF seen /\ gap <= time_window
                   THEN Get(eh_streak, error_key, 0) + 1 ELSE 1
    IN  [eh_lock |-> IF r.ret = "Blocked" THEN "handle_error" ELSE "free",
         error_counts |-> t.counts,
         last_errors |-> lasts1,
         error_history |-> history1,
         eh_streak |-> Put(eh_streak, error_key, streak1),
         ret |-> r.ret,
         eh_last |-> [called |-> TRUE,
                      error |-> error,
                      context |-> context,
                      gap_exceeded |-> seen /\ gap > time_window,
                      streak |-> streak1,
                      count_before |-> Get(error_counts, error_key, 0),
                      path |-> IF t.exceeded THEN "critical" ELSE "normal",
                      route |-> IF t.exceeded THEN <<>> ELSE r.route,
                      registered |-> DOMAIN recovery_handlers,
                      strategy |-> IF ~t.exceeded /\ error.kind \in DOMAIN recovery_handlers
                                   THEN InvokeHandler(recovery_handlers[error.kind],
                                                      context, env).ret
                                   ELSE "NotInvoked",
                      ret |-> r.ret,
                      trace |-> r.trace,
                      recorded |-> Len(history1) - Len(error_history)]]

\* handle_error(error, context) called by the application.  The call waits at
\* its lock region for as long as the lock is held.
HandleError(error, context, env) ==
    \E effect \in {HandleErrorEffect(error, context, env)} :
        /\ eh_lock = "free"
        /\ eh_lock' = effect.eh_lock
        /\ error_counts' = effect.error_counts
        /\ last_errors' = effect.last_errors
        /\ error_history' = effect.error_history
        /\ eh_calls' = eh_calls + 1
        /\ eh_streak' = effect.eh_streak
        /\ eh_last' = effect.eh_last
        /\ UNCHANGED <<callVars, monVars, now, recovery_handlers, fallback_handlers, attrs, eh_setups, eh_ticks,
                     eh_report, component_states, eh_wrap, shutdown_event,
                   rmVars, hmVars>>

\* register_recovery_handler(error_type, handler) with an application strategy
RegisterRecoveryHandler(kind) ==
    /\ eh_setups < MaxSetups
    /\ recovery_handlers' = Put(recovery_handlers, kind, "custom")
    /\ eh_setups' = eh_setups + 1
    /\ UNCHANGED <<callVars, monVars, now, error_counts, last_errors, fallback_handlers, attrs,
                   error_history, eh_calls, eh_ticks, eh_streak, eh_last, eh_lock, eh_report, component_states, eh_wrap, shutdown_event,
                   rmVars, hmVars>>

\* register_fallback_handler(component, handler)
RegisterFallbackHandler(component) ==
    /\ eh_setups < MaxSetups
    /\ fallback_handlers' = fallback_handlers \cup {component}
    /\ eh_setups' = eh_setups + 1
    /\ UNCHANGED <<callVars, monVars, now, error_counts, last_errors, recovery_handlers, attrs,
                   error_history, eh_calls, eh_ticks, eh_streak, eh_last, eh_lock, eh_report, component_states, eh_wrap, shutdown_event,
                   rmVars, hmVars>>

\* The threads that call handle_error.
HandlerThreads == {"t1", "t2"}

\* No thread is inside handle_error.
InitHandlerThreads ==
    /\ eh_threads = [t \in HandlerThreads |-> [pc |-> "idle"]]
    /\ eh_entries = <<>>

\* handle_error on thread t, the `with self._lock` block: the increment, the
\* time stamp and the threshold test, and on the critical path the whole of
\* _handle_critical_error, after which the call returns.  The thread waits
\* for as long as the lock is held.
HandleErrorEnter(t, error, context, env) ==
    LET error_key == ErrorKey(error, context)
        counts1 == CountError(error_counts, error_key)
        lasts1 == Put(last_errors, error_key, now)
        verdict == IsErrorThresholdExceeded(counts1, lasts1, error_key, now)
        r == IF verdict.exceeded THEN HandleCriticalError(env) ELSE Res("NotRun", <<>>)
    IN  /\ eh_threads[t].pc = "idle"
        /\ eh_lock = "free"
        /\ error_counts' = verdict.counts
        /\ last_errors' = lasts1
        /\ eh_lock' = IF r.ret = "Blocked" THEN "handle_error" ELSE "free"
        /\ eh_calls' = eh_calls + 1
        /\ eh_threads' =
              [eh_threads EXCEPT ![t] =
                  IF ~verdict.exceeded
                  THEN [pc |-> "recover", error |-> error, context |-> context]
                  ELSE IF r.ret = "Blocked" THEN [pc |-> "blocked"]
                  ELSE [pc |-> "idle"]]
        /\ eh_entries' = Append(eh_entries,
                                [thread |-> t, error_key |-> error_key,
                                 count |-> counts1[error_key],
                                 path |-> IF verdict.exceeded THEN "critical" ELSE "normal",
                                 others_inside |-> {u \in HandlerThreads \ {t} :
                                                      eh_threads[u].pc = "recover"}])
        /\ UNCHANGED <<recovery_handlers, fallback_handlers, attrs, error_history,
                       eh_setups, eh_ticks, eh_streak, eh_last, eh_report, component_states,
                       eh_wrap, shutdown_event, glVars, hcVars, sgVars, enVars, retry, critical, now,
                       rmVars, hmVars, monVars>>

\* handle_error on thread t after the lock block: _attempt_recovery, then
\* add_error_to_history, which takes the lock again, and the return.  An
\* exception out of the recovery ends the call before the history.
HandleErrorRecover(t, env) ==
    LET me == eh_threads[t]
        r == AttemptRecovery(me.error, me.context, env)
    IN  /\ me.pc = "recover"
        /\ eh_lock = "free"
        /\ error_history' =
              IF r.ret \in {True, False}
              THEN AddErrorToHistory(error_history, me.error, me.context, r.ret = True)
              ELSE error_history
        /\ eh_threads' = [eh_threads EXCEPT ![t] =
                              [pc |-> IF r.ret = "Blocked" THEN "blocked" ELSE "idle"]]
        /\ UNCHANGED <<error_counts, last_errors, recovery_handlers, fallback_handlers,
                       attrs, eh_calls, eh_setups, eh_ticks, eh_streak, eh_last, eh_lock,
                       eh_report, component_states, eh_wrap, shutdown_event, eh_entries,
                       glVars, hcVars, sgVars, enVars, retry, critical, now, rmVars, hmVars, monVars>>

\* The application attaches one of the collaborators the handler looks up
\* with hasattr: feature_manager, resource_manager, audio_manager, config_manager.
Attach(a) ==
    /\ eh_setups < MaxSetups
    /\ a \notin attrs
    /\ attrs' = attrs \cup {a}
    /\ eh_setups' = eh_setups + 1
    /\ UNCHANGED <<callVars, monVars, now, error_counts, last_errors, recovery_handlers, fallback_handlers,
                   error_history, eh_calls, eh_ticks, eh_streak, eh_last, eh_lock, eh_report, component_states, eh_wrap, shutdown_event,
                   rmVars, hmVars>>

\* reset_error_counts()
ResetErrorCounts ==
    /\ eh_lock = "free"
    /\ error_counts # EmptyDict
    /\ error_counts' = EmptyDict
    /\ last_errors' = EmptyDict
    /\ eh_streak' = EmptyDict
    /\ UNCHANGED <<callVars, monVars, now, recovery_handlers, fallback_handlers, attrs,
                   error_history, eh_calls, eh_setups, eh_ticks, eh_last, eh_lock, eh_report, component_states, eh_wrap, shutdown_event,
                   rmVars, hmVars>>

\* get_detailed_error_report(): takes the lock, then calls
\* get_error_statistics() and get_component_health() with the lock held.
GetDetailedErrorReport ==
    LET held == "get_detailed_error_report"
        stats == GetErrorStatisticsUnder(held)
    IN  IF stats.blocked
        THEN [blocked |-> TRUE, lock |-> held]
        ELSE [blocked |-> FALSE, lock |-> "free",
              report |-> [error_statistics |-> stats.statistics,
                          recent_errors |-> LastN(error_history, 50),
                          configuration |-> [error_threshold |-> error_threshold,
                                             time_window |-> time_window]]]

\* json.dump of a dict with string keys: the set of its "key": value members.
JsonDump(d) == {<<k, d[k]>> : k \in DOMAIN d}

\* json.load of such an object.
JsonLoad(members) ==
    [k \in {m[1] : m \in members} |-> (CHOOSE m \in members : m[1] = k)[2]]

\* get_error_statistics() called from outside the handler
GetErrorStatistics ==
    LET r == GetErrorStatisticsUnder(eh_lock)
    IN  /\ ~r.blocked
        /\ eh_report' = [op |-> "get_error_statistics", ret |-> "Returned",
                         statistics |-> r.statistics]
        /\ UNCHANGED <<callVars, monVars, now, error_counts, last_errors, recovery_handlers,
                       fallback_handlers, attrs, error_history, eh_calls, eh_setups,
                       eh_ticks, eh_streak, eh_last, eh_lock, component_states, eh_wrap, shutdown_event,
                       rmVars, hmVars>>

\* save_error_report(): builds the report, writes it as JSON and returns the
\* path; the parsed field is what reading the file back gives.
SaveErrorReport ==
    LET r == GetDetailedErrorReport
    IN  /\ eh_lock = "free"
        /\ eh_lock' = r.lock
        /\ IF r.blocked
           THEN eh_report' = [op |-> "save_error_report", ret |-> "Blocked"]
           ELSE eh_report' =
                  [op |-> "save_error_report", ret |-> "Returned",
                   live |-> ErrorStatistics,
                   parsed |-> [error_counts |->
                                  JsonLoad(JsonDump(r.report.error_statistics.error_counts)),
                               total_errors |-> r.report.error_statistics.total_errors]]
        /\ UNCHANGED <<callVars, monVars, now, error_counts, last_errors, recovery_handlers,
                       fallback_handlers, attrs, error_history, eh_calls, eh_setups,
                       eh_ticks, eh_streak, eh_last, component_states, eh_wrap, shutdown_event,
                       rmVars, hmVars>>

\* is_shutdown_requested()
IsShutdownRequested == shutdown_event

\* _emergency_shutdown(), which the signal and uncaught-exception hooks call:
\* it sets the shutdown event, cleans up and exits the process.
EmergencyShutdown ==
    /\ ~shutdown_event
    /\ shutdown_event' = TRUE
    /\ UNCHANGED <<callVars, monVars, now, error_counts, last_errors, recovery_handlers,
                   fallback_handlers, attrs, error_history, eh_calls, eh_setups, eh_ticks,
                   eh_streak, eh_last, eh_lock, eh_report, component_states, eh_wrap,
                   rmVars, hmVars>>

\* set_component_state(component, state), on a dict
SetComponentState(states, component, state) == Put(states, component, state)

\* What a wrapped function does when called: it returns, or raises error.
Returns == [raises |-> FALSE]
Raises(error) == [raises |-> TRUE, error |-> error]

\* The values passed as fallback_value: the default None, or a value.
None == "None"
FallbackValues == {None, "fallback_result"}

\* A call of a function decorated with production_safe_execute(context,
\* fallback_value, raise_on_failure=raise_on_failure), on the global handler.
\* An exception that handle_error raises leaves the wrapper from inside its
\* except block.
ProductionSafeExecute(context, outcome, fallback_value, raise_on_failure, env) ==
    /\ eh_lock = "free"
    /\ IF ~outcome.raises
       THEN /\ component_states' =
                 IF Get(component_states, context, None) = "unhealthy"
                 THEN SetComponentState(component_states, context, "healthy")
                 ELSE component_states
            /\ eh_wrap' = [op |-> "production_safe_execute", raised |-> FALSE,
                           context |-> context,
                           label_before |-> Get(component_states, context, None),
                           ret |-> "result"]
            /\ UNCHANGED <<error_counts, last_errors, error_history, eh_calls,
                           eh_streak, eh_last, eh_lock>>
       ELSE \E effect \in {HandleErrorEffect(outcome.error, context, env)} :
            LET returned == effect.ret \in {True, False}
                recovery_success == effect.ret = True
                history2 == IF returned
                            THEN AddErrorToHistory(effect.error_history, outcome.error,
                                                   context, recovery_success)
                            ELSE effect.error_history
            IN  /\ component_states' =
                     SetComponentState(component_states, context, "unhealthy")
                /\ eh_lock' = effect.eh_lock
                /\ error_counts' = effect.error_counts
                /\ last_errors' = effect.last_errors
                /\ error_history' = history2
                /\ eh_calls' = eh_calls + 1
                /\ eh_streak' = effect.eh_streak
                /\ eh_last' = effect.eh_last
                /\ eh_wrap' =
                     [op |-> "production_safe_execute", raised |-> TRUE,
                      error |-> outcome.error,
                      context |-> context,
                      fallback_value |-> fallback_value,
                      raise_on_failure |-> raise_on_failure,
                      handle_error |-> effect.ret,
                      recorded |-> Len(history2) - Len(error_history),
                      ret |-> CASE effect.ret = "Blocked" -> "Blocked"
                                [] effect.ret = Raise -> Raise
                                [] recovery_success -> fallback_value
                                [] raise_on_failure -> Raise
                                [] OTHER -> fallback_value,
                      propagated |-> CASE effect.ret = Raise -> "callback"
                                       [] effect.ret = False /\ raise_on_failure -> "original"
                                       [] OTHER -> None]
    /\ UNCHANGED <<callVars, monVars, now, recovery_handlers, fallback_handlers, attrs, eh_setups,
                   eh_ticks, eh_report, shutdown_event, rmVars, hmVars>>

\* A call of a function decorated with critical_operation(context,
\* max_retries=0): the loop has one iteration, which is the final attempt.
CriticalOperationOnce(context, outcome, env) ==
    /\ eh_lock = "free"
    /\ IF ~outcome.raises
       THEN /\ component_states' = SetComponentState(component_states, context, "healthy")
            /\ eh_wrap' = [op |-> "critical_operation", raised |-> FALSE,
                           context |-> context,
                           label_before |-> Get(component_states, context, None),
                           ret |-> "result"]
            /\ UNCHANGED <<error_counts, last_errors, error_history, eh_calls,
                           eh_streak, eh_last, eh_lock>>
       ELSE \E effect \in {HandleErrorEffect(outcome.error, context, env)} :
            LET returned == effect.ret \in {True, False}
                history2 == IF returned
                            THEN AddErrorToHistory(effect.error_history, outcome.error,
                                                   context, FALSE)
                            ELSE effect.error_history
            IN  /\ component_states' =
                     SetComponentState(component_states, context, "critical")
                /\ eh_lock' = effect.eh_lock
                /\ error_counts' = effect.error_counts
                /\ last_errors' = effect.last_errors
                /\ error_history' = history2
                /\ eh_calls' = eh_calls + 1
                /\ eh_streak' = effect.eh_streak
                /\ eh_last' = effect.eh_last
                /\ eh_wrap' = [op |-> "critical_operation", raised |-> TRUE,
                               context |-> context,
                               label_before |-> Get(component_states, context, None),
                               handle_error |-> effect.ret,
                               recorded |-> Len(history2) - Len(error_history),
                               ret |-> IF effect.ret = "Blocked" THEN "Blocked" ELSE Raise]
    /\ UNCHANGED <<callVars, monVars, now, recovery_handlers, fallback_handlers, attrs, eh_setups,
                   eh_ticks, eh_report, shutdown_event, rmVars, hmVars>>

-----------------------------------------------------------------------------
(* retry_on_failure *)

\* No call of the wrapper has been made.
InitRetry == retry = [status |-> "idle", calls_made |-> 0]

\* last_exception = None
NoException == [kind |-> None, attempt |-> 0]

\* What one call of the wrapped function does: it returns, raises an
\* exception of a class listed in `exceptions`, or raises another one.
RetryOutcomes == {"ok", "caught", "other"}

\* The delay values passed to the decorator, in seconds.
Delays == {1, 3}

\* As the sleep length, without the doubling.
BackoffDelay_Constant(delay, attempt) == delay

\* delay * (2 ** attempt), the length of the sleep after a failed attempt
BackoffDelay(delay, attempt) == delay * (2 ^ attempt)

\* The wrapper is entered, for the first time or after an earlier call of it
\* has ended: last_exception = None, and the loop starts with attempt 0 of
\* range(max_retries + 1).
RetryCall(max_retries, delay) ==
    /\ retry.status # "running"
    /\ retry.calls_made < MaxRetryCalls
    /\ retry' = [status |-> "running",
                 calls_made |-> retry.calls_made + 1,
                 max_retries |-> max_retries,
                 delay |-> delay,
                 attempt |-> 0,
                 calls |-> <<>>,
                 last_exception |-> NoException,
                 ret |-> NoException]
    /\ UNCHANGED <<critical, threadVars, now, ehVars, rmVars, hmVars, monVars>>

\* One iteration of the loop: the wrapped function is called; its result is
\* returned, or its exception is caught and the wrapper sleeps, or, after the
\* last iteration, the loop ends and last_exception is raised.  An exception
\* of a class outside `exceptions` leaves the wrapper at once.
RetryAttempt(outcome) ==
    LET attempt == retry.attempt
        call == [attempt |-> attempt, at |-> now, outcome |-> outcome]
        raised == [kind |-> "exception", attempt |-> attempt]
        calls1 == Append(retry.calls, call)
    IN  /\ retry.status = "running"
        /\ CASE outcome = "ok" ->
                  /\ retry' = [retry EXCEPT !.calls = calls1,
                                            !.status = "returned",
                                            !.ret = [kind |-> "result", attempt |-> attempt]]
                  /\ now' = now
             [] outcome = "other" ->
                  /\ retry' = [retry EXCEPT !.calls = calls1,
                                            !.status = "raised",
                                            !.ret = raised]
                  /\ now' = now
             [] outcome = "caught" /\ attempt < retry.max_retries ->
                  /\ retry' = [retry EXCEPT !.calls = calls1,
                                            !.last_exception = raised,
                                            !.attempt = attempt + 1]
                  /\ now' = now + BackoffDelay(retry.delay, attempt)
             [] OTHER ->
                  /\ retry' = [retry EXCEPT !.calls = calls1,
                                            !.last_exception = raised,
                                            !.status = "raised",
                                            !.ret = raised]
                  /\ now' = now
        /\ UNCHANGED <<critical, threadVars, ehVars, rmVars, hmVars, monVars>>

-----------------------------------------------------------------------------
(* critical_operation *)

\* No call of the wrapper has been made.
InitCritical == critical = [status |-> "idle", calls_made |-> 0]

-----------------------------------------------------------------------------
(* get_error_handler, get_resource_manager *)

\* The threads that run perform_health_check: the loop worker of the monitor
\* and a thread of the application that calls it directly.
CheckThreads == {"loop_worker", "caller"}

\* VoiceControlEngine.__init__: not running, no shutdown requested; neither
\* hook is registered yet and no call of the shutdown chain has been made.
InitEngine ==
    engine = [created |-> FALSE, started |-> FALSE, running |-> FALSE,
              shutdown_requested |-> FALSE, bodies |-> 0, components |-> 0,
              calls_made |-> 0, last |-> [op |-> "none"]]

\* The main thread is outside the registry and no signal has been delivered.
InitSignals ==
    /\ main_op = [op |-> "none"]
    /\ signal_state = [delivered |-> FALSE]

\* No thread is inside perform_health_check.
InitCheckers ==
    /\ hm_checkers = [t \in CheckThreads |-> [pc |-> "idle", cycles |-> 0]]
    /\ hm_current_by = None

Accessors == {"get_error_handler", "get_resource_manager"}

\* The threads that call the accessors: the main thread and one other.
AccessorThreads == {"main", "worker"}

\* _global_error_handler = None, _global_resource_manager = None at import
InitGlobals ==
    /\ global_instance = [a \in Accessors |-> 0]
    /\ instances = [a \in Accessors |-> <<>>]
    /\ accessor_calls = [t \in AccessorThreads |-> [pc |-> "idle", calls_made |-> 0]]
    /\ accessor_returns = [a \in Accessors |-> {}]

\* No decorated function and no accessor has been called.
InitCalls ==
    /\ InitRetry /\ InitCritical /\ InitGlobals /\ InitCheckers /\ InitHandlerThreads
    /\ InitSignals /\ InitEngine

\* ResourceManager.__init__ calls signal.signal outside any try, which raises
\* ValueError on every thread but the main one; ProductionErrorHandler
\* catches that error.
ConstructorRaises(a, t) == a = "get_resource_manager" /\ t # "main"

\* A thread enters an accessor and evaluates `if <global> is None`.
AccessorTest(t, a) ==
    /\ accessor_calls[t].pc = "idle"
    /\ accessor_calls[t].calls_made < MaxAccessorCalls
    /\ accessor_calls' =
          [accessor_calls EXCEPT ![t] =
              [pc |-> IF global_instance[a] = 0 THEN "construct" ELSE "return",
               accessor |-> a,
               calls_made |-> @.calls_made + 1]]
    /\ UNCHANGED <<global_instance, instances, accessor_returns, hcVars, heVars, sgVars, enVars, retry, critical,
                   now, ehVars, rmVars, hmVars, monVars>>

\* The thread that found None constructs an instance and stores it in the
\* global; get_resource_manager then starts the monitoring of the instance.
\* A constructor that raises ends the call with the global unchanged.
AccessorConstruct(t) ==
    LET a == accessor_calls[t].accessor
        id == Len(instances[a]) + 1
    IN  /\ accessor_calls[t].pc = "construct"
        /\ IF ConstructorRaises(a, t)
           THEN /\ accessor_calls' = [accessor_calls EXCEPT ![t].pc = "idle"]
                /\ accessor_returns' =
                      [accessor_returns EXCEPT ![a] = @ \cup {[raised |-> TRUE]}]
                /\ UNCHANGED <<global_instance, instances>>
           ELSE /\ instances' =
                      [instances EXCEPT ![a] =
                          Append(@, [by |-> t,
                                     monitoring_active |-> a = "get_resource_manager"])]
                /\ global_instance' = [global_instance EXCEPT ![a] = id]
                /\ accessor_calls' = [accessor_calls EXCEPT ![t].pc = "return"]
                /\ UNCHANGED accessor_returns
        /\ UNCHANGED <<hcVars, heVars, sgVars, enVars, retry, critical, now, ehVars, rmVars, hmVars, monVars>>

\* `return <global>`: the value of the global at that moment.
AccessorReturn(t) ==
    LET a == accessor_calls[t].accessor
    IN  /\ accessor_calls[t].pc = "return"
        /\ accessor_calls' = [accessor_calls EXCEPT ![t].pc = "idle"]
        /\ accessor_returns' =
              [accessor_returns EXCEPT
                  ![a] = @ \cup {[raised |-> FALSE, instance |-> global_instance[a]]}]
        /\ UNCHANGED <<global_instance, instances, hcVars, heVars, sgVars, enVars, retry, critical,
                       now, ehVars, rmVars, hmVars, monVars>>

\* The wrapper is entered, for the first time or after an earlier call of it
\* has ended: last_exception = None, and the loop starts with attempt 0 of
\* range(max_retries + 1).
CriticalCall(context, max_retries, retry_delay) ==
    /\ critical.status \notin {"running", "blocked"}
    /\ critical.calls_made < MaxCriticalCalls
    /\ critical' = [status |-> "running",
                    calls_made |-> critical.calls_made + 1,
                    context |-> context,
                    max_retries |-> max_retries,
                    retry_delay |-> retry_delay,
                    attempt |-> 0,
                    calls |-> <<>>,
                    history_before |-> error_history,
                    ret |-> NoException]
    /\ UNCHANGED <<retry, threadVars, now, ehVars, rmVars, hmVars, monVars>>

\* One iteration of the loop.  The wrapped function is called.  When it
\* returns, the label is set and the result returned.  When it raises before
\* the last iteration, handle_error and add_error_to_history are called and
\* the wrapper sleeps; on the last iteration the label is set first, the same
\* two calls follow with recovery_success False, the loop ends and
\* last_exception is raised.  An exception out of handle_error leaves the
\* wrapper at once, and a handle_error that waits for the lock keeps the
\* wrapper waiting.
CriticalAttempt(outcome, env) ==
    LET attempt == critical.attempt
        context == critical.context
        final == ~(attempt < critical.max_retries)
    IN  /\ critical.status = "running"
        /\ eh_lock = "free"
        /\ IF ~outcome.raises
           THEN /\ component_states' = SetComponentState(component_states, context, "healthy")
                /\ critical' =
                     [critical EXCEPT
                        !.calls = Append(@, [attempt |-> attempt, at |-> now,
                                             raised |-> FALSE, handle_error |-> "NotCalled",
                                             label |-> "healthy"]),
                        !.status = "returned",
                        !.ret = [kind |-> "result", attempt |-> attempt]]
                /\ now' = now
                /\ UNCHANGED <<error_counts, last_errors, error_history, eh_calls,
                               eh_streak, eh_last, eh_lock>>
           ELSE \E effect \in {HandleErrorEffect(outcome.error, context, env)} :
                LET returned == effect.ret \in {True, False}
                    recovery_success == IF final THEN FALSE ELSE effect.ret = True
                    states1 == IF final
                               THEN SetComponentState(component_states, context, "critical")
                               ELSE component_states
                    call == [attempt |-> attempt, at |-> now, raised |-> TRUE,
                             handle_error |-> effect.ret,
                             label |-> Get(states1, context, None)]
                IN  /\ component_states' = states1
                    /\ eh_lock' = effect.eh_lock
                    /\ error_counts' = effect.error_counts
                    /\ last_errors' = effect.last_errors
                    /\ error_history' =
                         IF returned
                         THEN AddErrorToHistory(effect.error_history, outcome.error,
                                                context, recovery_success)
                         ELSE effect.error_history
                    /\ eh_calls' = eh_calls + 1
                    /\ eh_streak' = effect.eh_streak
                    /\ eh_last' = effect.eh_last
                    /\ critical' =
                         [critical EXCEPT
                            !.calls = Append(@, call),
                            !.attempt = IF returned /\ ~final THEN attempt + 1 ELSE attempt,
                            !.status = CASE effect.ret = "Blocked" -> "blocked"
                                         [] effect.ret = Raise -> "raised"
                                         [] final -> "raised"
                                         [] OTHER -> "running",
                            !.ret = CASE effect.ret = "Blocked" -> NoException
                                      [] effect.ret = Raise ->
                                            [kind |-> "callback", attempt |-> attempt]
                                      [] final -> [kind |-> "exception", attempt |-> attempt]
                                      [] OTHER -> NoException]
                    /\ now' = IF returned /\ ~final
                              THEN now + BackoffDelay(critical.retry_delay, attempt)
                              ELSE now
        /\ UNCHANGED <<retry, threadVars, monVars, recovery_handlers, fallback_handlers, attrs, eh_setups,
                       eh_ticks, eh_report, eh_wrap, shutdown_event, rmVars, hmVars>>

\* Time passes between two calls.
Tick(d) ==
    /\ eh_ticks < MaxTicks
    /\ now' = now + d
    /\ eh_ticks' = eh_ticks + 1
    /\ UNCHANGED <<callVars, monVars, error_counts, last_errors, recovery_handlers, fallback_handlers,
                   attrs, error_history, eh_calls, eh_setups, eh_streak, eh_last, eh_lock, eh_report, component_states, eh_wrap, shutdown_event,
                   rmVars, hmVars>>

-----------------------------------------------------------------------------
(* ResourceManager: the registry, a dict kept in insertion order *)

Threads == {"main", "worker"}

ResourceNames == {"buf1", "buf2"}

\* What a cleanup function or a shutdown hook does when it is called.
Behaviours == {"ok", Raise}

\* name in self.active_resources
Names(res) == {res[i].name : i \in DOMAIN res}

\* self.active_resources[name]
Lookup(res, name) == res[CHOOSE i \in DOMAIN res : res[i].name = name]

\* As the assignment, but on a registry that keeps every registration.
Store_KeepBoth(res, info) == Append(res, info)

\* self.active_resources[name] = info
Store(res, info) ==
    IF info.name \in Names(res)
    THEN [i \in DOMAIN res |-> IF res[i].name = info.name THEN info ELSE res[i]]
    ELSE Append(res, info)

\* del self.active_resources[name]
Delete(res, name) == SelectSeq(res, LAMBDA info : info.name # name)

\* resource_info['cleanup'](resource_info['resource']) is called once more
Invoke(calls, id) == Put(calls, id, Get(calls, id, 0) + 1)

RECURSIVE InvokeAll(_, _)
InvokeAll(calls, infos) ==
    IF infos = <<>> THEN calls
    ELSE InvokeAll(Invoke(calls, Head(infos).id), Tail(infos))

\* The ids of a list of resource infos.
Ids(infos) == [i \in DOMAIN infos |-> infos[i].id]

\* get_resource_stats() called while the registry's lock is in state lock: the
\* lock is a threading.Lock, so the call blocks when it is held, also by its
\* own caller.  A cleanup function that reenters makes this call.
GetResourceStatsUnder(lock) ==
    IF lock = "free"
    THEN [blocked |-> FALSE, active_resources |-> Len(active_resources)]
    ELSE [blocked |-> TRUE]

\* As the body of cleanup_resource, but the entry of a resource whose cleanup
\* function raised stays registered.
CleanupResourceBody_KeepOnRaise(res, calls, name) ==
    IF name \notin Names(res)
    THEN [res |-> res, calls |-> calls, ret |-> False, invoked |-> <<>>]
    ELSE LET resource_info == Lookup(res, name)
         IN  [res |-> IF resource_info.cleanup = Raise THEN res ELSE Delete(res, name),
              calls |-> Invoke(calls, resource_info.id),
              ret |-> IF resource_info.cleanup = Raise THEN False ELSE True,
              invoked |-> <<resource_info.id>>]

\* The body of cleanup_resource(name), run under the lock; a call blocked
\* inside the cleanup function never reaches the del.
CleanupResourceBody(res, calls, name) ==
    IF name \notin Names(res)
    THEN [res |-> res, calls |-> calls, ret |-> False, invoked |-> <<>>]
    ELSE LET resource_info == Lookup(res, name)
         IN  IF /\ resource_info.cleanup = "reenter"
                /\ GetResourceStatsUnder("cleanup_resource").blocked
             THEN [res |-> res,
                   calls |-> Invoke(calls, resource_info.id),
                   ret |-> "Blocked",
                   invoked |-> <<resource_info.id>>]
             ELSE [res |-> Delete(res, name),
                   calls |-> Invoke(calls, resource_info.id),
                   ret |-> IF resource_info.cleanup = Raise THEN False ELSE True,
                   invoked |-> <<resource_info.id>>]

\* As the release loop of cleanup_all, but with the try around the whole loop:
\* the first cleanup function that raises ends it.
RECURSIVE ReleaseAllFrom_StopAtRaise(_)
ReleaseAllFrom_StopAtRaise(snapshot) ==
    IF snapshot = <<>> THEN [attempted |-> <<>>, raised |-> FALSE]
    ELSE IF Head(snapshot).cleanup = Raise
         THEN [attempted |-> <<Head(snapshot)>>, raised |-> TRUE]
         ELSE LET rest == ReleaseAllFrom_StopAtRaise(Tail(snapshot))
              IN  [attempted |-> <<Head(snapshot)>> \o rest.attempted,
                   raised |-> rest.raised]

\* The release loop of cleanup_all over resources_to_cleanup: each cleanup
\* function is called inside its own try, an exception is logged and the loop
\* goes on.
RECURSIVE ReleaseAllFrom(_)
ReleaseAllFrom(snapshot) ==
    IF snapshot = <<>> THEN [attempted |-> <<>>, raised |-> FALSE]
    ELSE LET rest == ReleaseAllFrom(Tail(snapshot))
         IN  [attempted |-> <<Head(snapshot)>> \o rest.attempted,
              raised |-> rest.raised]

\* The hook loop of cleanup_all from handler i on: each handler is called
\* inside its own try.
RECURSIVE RunHandlersFrom(_, _)
RunHandlersFrom(handlers, i) ==
    IF i > Len(handlers) THEN [run |-> <<>>, raised |-> FALSE]
    ELSE LET rest == RunHandlersFrom(handlers, i + 1)
         IN  [run |-> <<i>> \o rest.run, raised |-> rest.raised]

\* As the collection of _cleanup_old_resources, but of every registered name.
StaleNames_All(res, current_time) == [i \in DOMAIN res |-> res[i].name]

\* The names _cleanup_old_resources collects: not accessed for 10 minutes.
StaleNames(res, current_time) ==
    LET stale == SelectSeq(res, LAMBDA info : current_time - info.last_accessed > stale_after)
    IN  [i \in DOMAIN stale |-> stale[i].name]

\* The names _check_resource_age collects: older than 1 hour and not accessed
\* for 30 minutes.
OldNames(res, current_time) ==
    LET old == SelectSeq(res, LAMBDA info : /\ current_time - info.created_at > old_after
                                            /\ current_time - info.last_accessed > idle_after)
    IN  [i \in DOMAIN old |-> old[i].name]

\* for name in names: self.cleanup_resource(name)
RECURSIVE CleanupEach(_, _, _)
CleanupEach(res, calls, names) ==
    IF names = <<>>
    THEN [res |-> res, calls |-> calls, invoked |-> <<>>, blocked |-> FALSE]
    ELSE LET one == CleanupResourceBody(res, calls, Head(names))
             rest == CleanupEach(one.res, one.calls, Tail(names))
         IN  IF one.ret = "Blocked"
             THEN [res |-> one.res, calls |-> one.calls, invoked |-> one.invoked,
                   blocked |-> TRUE]
             ELSE [res |-> rest.res, calls |-> rest.calls,
                   invoked |-> one.invoked \o rest.invoked, blocked |-> rest.blocked]

-----------------------------------------------------------------------------
(* ResourceManager: the operations, each called by one thread at a time *)

Idle == [t \in Threads |-> "idle"]
NoLocals == [t \in Threads |-> <<>>]

\* ResourceManager.__init__
InitResourceManager ==
    /\ active_resources = <<>>
    /\ cleanup_handlers = <<>>
    /\ rm_next_id = 1
    /\ release_calls = EmptyDict
    /\ rm_ticks = 0
    /\ rm_last = [op |-> "init"]
    /\ pc = Idle
    /\ local = NoLocals
    /\ rm_lock = "free"
    /\ rm_overwritten = EmptyDict

\* The info register_resource stores.
ResourceInfo(name, cleanup) ==
    [name |-> name, id |-> rm_next_id, cleanup |-> cleanup,
     created_at |-> now, last_accessed |-> now]

\* register_resource(name, resource, cleanup_func)
RegisterResource(name, cleanup) ==
    /\ rm_next_id <= MaxRegistrations
    /\ rm_lock = "free"
    /\ active_resources' = Store(active_resources, ResourceInfo(name, cleanup))
    /\ rm_next_id' = rm_next_id + 1
    /\ rm_last' = [op |-> "register_resource", name |-> name,
                   overwrote |-> name \in Names(active_resources)]
    /\ rm_overwritten' =
          IF name \in Names(active_resources)
          THEN LET prior == Lookup(active_resources, name)
               IN  Put(rm_overwritten, prior.id, Get(release_calls, prior.id, 0))
          ELSE rm_overwritten
    /\ UNCHANGED <<callVars, monVars, now, ehVars, hmVars, rm_lock, cleanup_handlers, release_calls, rm_ticks, pc, local>>

\* unregister_resource(name)
UnregisterResource(name) ==
    /\ rm_lock = "free"
    /\ active_resources' = Delete(active_resources, name)
    /\ rm_last' = [op |-> "unregister_resource", name |-> name,
                   ret |-> IF name \in Names(active_resources) THEN True ELSE False]
    /\ UNCHANGED <<callVars, monVars, now, ehVars, hmVars, rm_overwritten, rm_lock, cleanup_handlers, rm_next_id, release_calls, rm_ticks,
                   pc, local>>

\* cleanup_resource(name)
CleanupResource(name) ==
    LET r == CleanupResourceBody(active_resources, release_calls, name)
    IN  /\ rm_lock = "free"
        /\ rm_lock' = IF r.ret = "Blocked" THEN "cleanup_resource" ELSE "free"
        /\ active_resources' = r.res
        /\ release_calls' = r.calls
        /\ rm_last' = [op |-> "cleanup_resource", name |-> name,
                       before |-> active_resources,
                       invoked |-> r.invoked, ret |-> r.ret]
        /\ UNCHANGED <<callVars, monVars, now, ehVars, hmVars, rm_overwritten, cleanup_handlers, rm_next_id, rm_ticks, pc, local>>

\* add_cleanup_handler(handler)
AddCleanupHandler(behaviour) ==
    /\ Len(cleanup_handlers) < MaxHooks
    /\ cleanup_handlers' = Append(cleanup_handlers, behaviour)
    /\ rm_last' = [op |-> "add_cleanup_handler"]
    /\ UNCHANGED <<callVars, monVars, now, ehVars, hmVars, rm_overwritten, rm_lock, active_resources, rm_next_id, release_calls, rm_ticks,
                   pc, local>>

\* cleanup_all(), run by one thread with no other thread in the registry; it
\* calls the cleanup functions with the lock released, so one that reenters
\* returns.
CleanupAllBody ==
    LET resources_to_cleanup == active_resources
        released == ReleaseAllFrom(resources_to_cleanup)
        hooks == IF released.raised THEN [run |-> <<>>, raised |-> TRUE]
                 ELSE RunHandlersFrom(cleanup_handlers, 1)
    IN  /\ rm_lock = "free"
        /\ release_calls' = InvokeAll(release_calls, released.attempted)
        /\ active_resources' = IF released.raised THEN active_resources ELSE <<>>
        /\ rm_last' = [op |-> "cleanup_all",
                       after |-> rm_last.op,
                       before |-> resources_to_cleanup,
                       invoked |-> Ids(released.attempted),
                       hooks_run |-> hooks.run,
                       ret |-> IF hooks.raised THEN Raise ELSE "None"]
        /\ UNCHANGED <<rm_overwritten, rm_lock, cleanup_handlers, rm_next_id, rm_ticks,
                       pc, local>>

\* cleanup_all() called by the application
CleanupAll ==
    /\ CleanupAllBody
    /\ UNCHANGED <<callVars, monVars, now, ehVars, hmVars>>

\* The signals _setup_signal_handlers installs the handler for.
Signals == {"SIGTERM", "SIGINT"}

\* The registry calls of the main thread that are followed step by step.
LockedOps == {"register_resource", "cleanup_resource"}

\* The main thread enters the `with self._lock` block of a registry call.
MainLockedBegin(op, name, cleanup) ==
    /\ main_op.op = "none"
    /\ ~signal_state.delivered
    /\ rm_lock = "free"
    /\ op = "register_resource" => rm_next_id <= MaxRegistrations
    /\ rm_lock' = op
    /\ main_op' = [op |-> op, name |-> name, cleanup |-> cleanup]
    /\ UNCHANGED <<signal_state, glVars, enVars, hcVars, heVars, retry, critical, monVars, now,
                   ehVars, hmVars, active_resources, cleanup_handlers, rm_next_id,
                   release_calls, rm_ticks, rm_last, pc, local, rm_overwritten>>

\* The main thread runs the body of the block and leaves it.  It gets
\* there only when no signal handler has taken over the thread.
MainLockedEnd ==
    LET name == main_op.name
        r == CleanupResourceBody(active_resources, release_calls, name)
    IN  /\ main_op.op # "none"
        /\ ~signal_state.delivered
        /\ rm_lock' = "free"
        /\ main_op' = [op |-> "none"]
        /\ IF main_op.op = "register_resource"
           THEN /\ active_resources' =
                      Store(active_resources, ResourceInfo(name, main_op.cleanup))
                /\ rm_next_id' = rm_next_id + 1
                /\ rm_last' = [op |-> "register_resource", name |-> name,
                               overwrote |-> name \in Names(active_resources)]
                /\ rm_overwritten' =
                      IF name \in Names(active_resources)
                      THEN LET prior == Lookup(active_resources, name)
                           IN  Put(rm_overwritten, prior.id,
                                   Get(release_calls, prior.id, 0))
                      ELSE rm_overwritten
                /\ UNCHANGED release_calls
           ELSE /\ active_resources' = r.res
                /\ release_calls' = r.calls
                /\ rm_last' = [op |-> "cleanup_resource", name |-> name,
                               before |-> active_resources,
                               invoked |-> r.invoked, ret |-> r.ret]
                /\ UNCHANGED <<rm_next_id, rm_overwritten>>
        /\ UNCHANGED <<signal_state, glVars, enVars, hcVars, heVars, retry, critical, monVars, now,
                       ehVars, hmVars, cleanup_handlers, rm_ticks, pc, local>>

\* SIGTERM or SIGINT arrives.  Python runs signal_handler on the main thread,
\* between two of its bytecodes: cleanup_all(), then sys.exit(0).  The lock is
\* a threading.Lock: when the main thread itself holds it, the `with
\* self._lock` of cleanup_all waits for a release that the same thread would
\* have to make.
DeliverSignal(signum) ==
    /\ ~signal_state.delivered
    /\ IF rm_lock # "free"
       THEN /\ signal_state' = [delivered |-> TRUE, signum |-> signum,
                                handler |-> "blocked", interrupted |-> main_op.op]
            /\ UNCHANGED rmVars
       ELSE /\ CleanupAllBody
            /\ signal_state' = [delivered |-> TRUE, signum |-> signum,
                                handler |-> "exited", interrupted |-> main_op.op]
    /\ UNCHANGED <<main_op, glVars, enVars, hcVars, heVars, retry, critical, monVars, now,
                   ehVars, hmVars>>

\* A call the main thread makes before any signal has ended the process.
WhileRunning(call) == ~signal_state.delivered /\ main_op.op = "none" /\ call

\* _trigger_memory_cleanup(): gc.collect(), then _cleanup_old_resources()
TriggerMemoryCleanup ==
    LET to_cleanup == StaleNames(active_resources, now)
        r == CleanupEach(active_resources, release_calls, to_cleanup)
    IN  /\ rm_lock = "free"
        /\ rm_lock' = IF r.blocked THEN "cleanup_resource" ELSE "free"
        /\ active_resources' = r.res
        /\ release_calls' = r.calls
        /\ rm_last' = [op |-> "_trigger_memory_cleanup", before |-> active_resources,
                       invoked |-> r.invoked]
        /\ UNCHANGED <<callVars, monVars, now, ehVars, hmVars, rm_overwritten, cleanup_handlers, rm_next_id, rm_ticks, pc, local>>

\* _check_resource_age()
CheckResourceAge ==
    LET old_resources == OldNames(active_resources, now)
        r == CleanupEach(active_resources, release_calls, old_resources)
    IN  /\ rm_lock = "free"
        /\ rm_lock' = IF r.blocked THEN "cleanup_resource" ELSE "free"
        /\ active_resources' = r.res
        /\ release_calls' = r.calls
        /\ rm_last' = [op |-> "_check_resource_age", before |-> active_resources,
                       invoked |-> r.invoked]
        /\ UNCHANGED <<callVars, monVars, now, ehVars, hmVars, rm_overwritten, cleanup_handlers, rm_next_id, rm_ticks, pc, local>>

\* What self.process.memory_info() gives: the resident size in MB, at the
\* ceiling or above it, or an exception.
MemoryReadings ==
    {[raises |-> TRUE]}
        \cup [raises : {FALSE}, mb : {max_memory_mb, max_memory_mb + 1}]

\* _check_memory_usage(), whose body is inside one try: first and second are
\* what the two measurements give.  Above the ceiling it calls
\* _trigger_memory_cleanup(), i.e. gc.collect() and _cleanup_old_resources(),
\* and measures again.
CheckMemoryUsage(first, second) ==
    LET high == ~first.raises /\ first.mb > max_memory_mb
        to_cleanup == StaleNames(active_resources, now)
        r == IF high
             THEN CleanupEach(active_resources, release_calls, to_cleanup)
             ELSE [res |-> active_resources, calls |-> release_calls,
                   invoked |-> <<>>, blocked |-> FALSE]
    IN  /\ rm_lock = "free"
        /\ rm_lock' = IF r.blocked THEN "cleanup_resource" ELSE "free"
        /\ active_resources' = r.res
        /\ release_calls' = r.calls
        /\ rm_last' = [op |-> "_check_memory_usage",
                       at |-> now,
                       first |-> first,
                       second |-> IF high /\ ~r.blocked THEN second ELSE [raises |-> FALSE, mb |-> 0],
                       before |-> active_resources,
                       invoked |-> r.invoked,
                       trace |-> IF ~high THEN <<"memory_info">>
                                 ELSE IF r.blocked
                                 THEN <<"memory_info", "gc.collect", "_cleanup_old_resources">>
                                 ELSE <<"memory_info", "gc.collect", "_cleanup_old_resources",
                                        "memory_info">>,
                       ret |-> IF r.blocked THEN "Blocked" ELSE None]
        /\ UNCHANGED <<callVars, monVars, now, ehVars, hmVars, rm_overwritten, cleanup_handlers,
                       rm_next_id, rm_ticks, pc, local>>

\* Time passes between two registry calls.
RegistryTick(d) ==
    /\ rm_ticks < MaxTicks
    /\ now' = now + d
    /\ rm_ticks' = rm_ticks + 1
    /\ UNCHANGED <<callVars, monVars, ehVars, hmVars, rm_overwritten, rm_lock, active_resources, cleanup_handlers, rm_next_id,
                   release_calls, rm_last, pc, local>>

RegistryTickSizes == {stale_after + 1, old_after + 1}

\* Registry calls made one after another.
NextRegistry ==
    \/ \E name \in ResourceNames, cleanup \in Behaviours : RegisterResource(name, cleanup)
    \/ \E name \in ResourceNames : UnregisterResource(name)
    \/ \E name \in ResourceNames : CleanupResource(name)
    \/ \E behaviour \in Behaviours : AddCleanupHandler(behaviour)
    \/ CleanupAll
    \/ TriggerMemoryCleanup
    \/ CheckResourceAge
    \/ \E d \in RegistryTickSizes : RegistryTick(d)

-----------------------------------------------------------------------------
(* ResourceManager: cleanup_all and the sweep, step by step.  A block under
   "with self._lock" is one step; a call of a cleanup function or of a
   shutdown hook outside the lock is one step. *)

\* cleanup_all(): resources_to_cleanup = list(self.active_resources.items())
CleanupAllBegin(t) ==
    /\ pc[t] = "idle"
    /\ pc' = [pc EXCEPT ![t] = "releasing"]
    /\ local' = [local EXCEPT ![t] = [resources_to_cleanup |-> active_resources]]
    /\ UNCHANGED <<callVars, monVars, now, ehVars, hmVars, rm_overwritten, rm_lock, active_resources, cleanup_handlers, rm_next_id,
                   release_calls, rm_ticks, rm_last>>

\* cleanup_all(): one turn of the release loop, outside the lock
CleanupAllRelease(t) ==
    /\ pc[t] = "releasing"
    /\ local[t].resources_to_cleanup # <<>>
    /\ release_calls' = Invoke(release_calls, Head(local[t].resources_to_cleanup).id)
    /\ local' = [local EXCEPT ![t] =
                    [resources_to_cleanup |-> Tail(local[t].resources_to_cleanup)]]
    /\ UNCHANGED <<callVars, monVars, now, ehVars, hmVars, rm_overwritten, rm_lock, active_resources, cleanup_handlers, rm_next_id,
                   rm_ticks, rm_last, pc>>

\* cleanup_all(): self.active_resources.clear()
CleanupAllClear(t) ==
    /\ pc[t] = "releasing"
    /\ local[t].resources_to_cleanup = <<>>
    /\ active_resources' = <<>>
    /\ pc' = [pc EXCEPT ![t] = "hooks"]
    /\ local' = [local EXCEPT ![t] = [i |-> 1]]
    /\ UNCHANGED <<callVars, monVars, now, ehVars, hmVars, rm_overwritten, rm_lock, cleanup_handlers, rm_next_id, release_calls,
                   rm_ticks, rm_last>>

\* cleanup_all(): one turn of the loop over self.cleanup_handlers
CleanupAllHook(t) ==
    /\ pc[t] = "hooks"
    /\ local[t].i <= Len(cleanup_handlers)
    /\ local' = [local EXCEPT ![t] = [i |-> local[t].i + 1]]
    /\ UNCHANGED <<callVars, monVars, now, ehVars, hmVars, rm_overwritten, rm_lock, active_resources, cleanup_handlers, rm_next_id,
                   release_calls, rm_ticks, rm_last, pc>>

\* cleanup_all(): gc.collect() and return
CleanupAllEnd(t) ==
    /\ pc[t] = "hooks"
    /\ local[t].i > Len(cleanup_handlers)
    /\ pc' = [pc EXCEPT ![t] = "idle"]
    /\ local' = [local EXCEPT ![t] = <<>>]
    /\ UNCHANGED <<callVars, monVars, now, ehVars, hmVars, rm_overwritten, rm_lock, active_resources, cleanup_handlers, rm_next_id,
                   release_calls, rm_ticks, rm_last>>

\* _cleanup_old_resources(): collect to_cleanup under the lock
SweepBegin(t) ==
    /\ pc[t] = "idle"
    /\ pc' = [pc EXCEPT ![t] = "sweeping"]
    /\ local' = [local EXCEPT ![t] = [to_cleanup |-> StaleNames(active_resources, now)]]
    /\ UNCHANGED <<callVars, monVars, now, ehVars, hmVars, rm_overwritten, rm_lock, active_resources, cleanup_handlers, rm_next_id,
                   release_calls, rm_ticks, rm_last>>

\* _cleanup_old_resources(): self.cleanup_resource(name) for the next name
SweepCleanup(t) ==
    /\ pc[t] = "sweeping"
    /\ local[t].to_cleanup # <<>>
    /\ LET r == CleanupResourceBody(active_resources, release_calls,
                                    Head(local[t].to_cleanup))
       IN  /\ active_resources' = r.res
           /\ release_calls' = r.calls
    /\ local' = [local EXCEPT ![t] = [to_cleanup |-> Tail(local[t].to_cleanup)]]
    /\ UNCHANGED <<callVars, monVars, now, ehVars, hmVars, rm_overwritten, rm_lock, cleanup_handlers, rm_next_id, rm_ticks, rm_last, pc>>

\* _cleanup_old_resources(): return
SweepEnd(t) ==
    /\ pc[t] = "sweeping"
    /\ local[t].to_cleanup = <<>>
    /\ pc' = [pc EXCEPT ![t] = "idle"]
    /\ local' = [local EXCEPT ![t] = <<>>]
    /\ UNCHANGED <<callVars, monVars, now, ehVars, hmVars, rm_overwritten, rm_lock, active_resources, cleanup_handlers, rm_next_id,
                   release_calls, rm_ticks, rm_last>>

\* Registry calls made by several threads.
NextRegistryThreads ==
    \/ \E t \in Threads, name \in ResourceNames, cleanup \in Behaviours :
          pc[t] = "idle" /\ RegisterResource(name, cleanup)
    \/ \E t \in Threads, name \in ResourceNames :
          pc[t] = "idle" /\ CleanupResource(name)
    \/ \E t \in Threads, behaviour \in Behaviours :
          pc[t] = "idle" /\ AddCleanupHandler(behaviour)
    \/ \E t \in Threads : CleanupAllBegin(t)
    \/ \E t \in Threads : CleanupAllRelease(t)
    \/ \E t \in Threads : CleanupAllClear(t)
    \/ \E t \in Threads : CleanupAllHook(t)
    \/ \E t \in Threads : CleanupAllEnd(t)
    \/ \E t \in Threads : SweepBegin(t)
    \/ \E t \in Threads : SweepCleanup(t)
    \/ \E t \in Threads : SweepEnd(t)
    \/ RegistryTick(stale_after + 1)

-----------------------------------------------------------------------------
(* HealthMonitor *)

HEALTHY == "healthy"
WARNING == "warning"
CRITICAL == "critical"
UNKNOWN == "unknown"
HealthStatus == {HEALTHY, WARNING, CRITICAL, UNKNOWN}

\* The components perform_health_check probes, in the order it probes them.
ComponentOrder == <<"memory_usage", "cpu_usage", "disk_usage", "audio_system",
                    "speech_recognition", "gui_system", "input_system",
                    "service_status">>
Components == {ComponentOrder[i] : i \in DOMAIN ComponentOrder}

\* HealthCheck(component, status): remediation flags default to False.
HealthCheck(component, status) ==
    [component |-> component, status |-> status,
     remediation_attempted |-> FALSE, remediation_successful |-> FALSE]

\* _register_default_remediations
DefaultRemediations ==
    [c \in {"audio_system", "speech_recognition", "memory_usage", "gui_system",
            "input_system"} |->
        CASE c = "audio_system" -> "_remediate_audio_system"
          [] c = "speech_recognition" -> "_remediate_speech_recognition"
          [] c = "memory_usage" -> "_remediate_memory_usage"
          [] c = "gui_system" -> "_remediate_gui_system"
          [] OTHER -> "_remediate_input_system"]

\* The history after a number of check cycles that found every component
\* healthy.
HealthFill(cycles) ==
    LastN([i \in 1..(Len(ComponentOrder) * cycles) |->
              HealthCheck(ComponentOrder[((i - 1) % Len(ComponentOrder)) + 1], HEALTHY)],
          max_history_size)

\* The monitor after HealthMonitor.__init__, but for the resource_manager
\* argument, and a number of check cycles that found every component healthy.
InitHealthMonitorAfter(cycles) ==
    /\ current_health = IF cycles = 0 THEN EmptyDict
                        ELSE [c \in Components |-> HealthCheck(c, HEALTHY)]
    /\ health_history = HealthFill(cycles)
    /\ remediation_handlers = DefaultRemediations
    /\ remediation_cooldown = EmptyDict
    /\ check_count = cycles
    /\ remediation_count = 0
    /\ last_full_check = IF cycles = 0 THEN 0 ELSE StartTime - 1
    /\ remediation_log = EmptyDict
    /\ hm_setups = 0
    /\ hm_ticks = 0
    /\ hm_lock = "free"
    /\ hm_last = [op |-> "none"]

\* HealthMonitor.__init__, but for the resource_manager argument
InitHealthMonitor == InitHealthMonitorAfter(0)

\* As _should_attempt_remediation, but without the cooldown test.
ShouldAttemptRemediation_NoCooldown(component, cooldown, current_time) ==
    component \in DOMAIN remediation_handlers

\* _should_attempt_remediation(component), reading time.time() as current_time
ShouldAttemptRemediation(component, cooldown, current_time) ==
    IF component \notin DOMAIN remediation_handlers
    THEN FALSE
    ELSE current_time - Get(cooldown, component, 0) > cooldown_period

\* What the handler of a component returns; env.reprobe is the status its own
\* second probe finds, env.custom what an application handler does, env.fails
\* whether a command of the audio handler fails.
RunRemediationHandler(handler, env) ==
    CASE handler = "_remediate_audio_system" ->
            IF env.fails THEN False
            ELSE IF env.reprobe = HEALTHY THEN True ELSE False
      [] handler = "_remediate_memory_usage" ->
            IF hm_resource_manager
            THEN IF env.reprobe # CRITICAL THEN True ELSE False
            ELSE False
      [] handler \in {"_remediate_speech_recognition", "_remediate_gui_system",
                      "_remediate_input_system"} -> False
      [] OTHER -> env.custom

\* The status the handler's own second probe of its component finds, for the
\* handlers that probe again (the audio handler after its commands, the memory
\* handler after the cleanup of a resource manager); NotProbed for the others.
NotProbed == "not_probed"
Reprobe(handler, env) ==
    CASE handler = "_remediate_audio_system" ->
            IF env.fails THEN NotProbed ELSE env.reprobe
      [] handler = "_remediate_memory_usage" ->
            IF hm_resource_manager THEN env.reprobe ELSE NotProbed
      [] OTHER -> NotProbed

\* As _attempt_remediation, but reporting a handler that raised as a success.
AttemptRemediation_RaiseIsSuccess(component, env) ==
    IF component \in DOMAIN remediation_handlers
    THEN RunRemediationHandler(remediation_handlers[component], env) # False
    ELSE FALSE

\* _attempt_remediation(component, check): the outcome, an exception of the
\* handler being caught and reported as False.
AttemptRemediation(component, env) ==
    IF component \in DOMAIN remediation_handlers
    THEN RunRemediationHandler(remediation_handlers[component], env) = True
    ELSE FALSE

\* As the status test of _attempt_remediations, but passing every status
\* other than healthy.
NeedsRemediation_NotHealthy(status) == status # HEALTHY

\* check.status in [HealthStatus.WARNING, HealthStatus.CRITICAL]
NeedsRemediation(status) == status \in {WARNING, CRITICAL}

\* _attempt_remediations(checks) from the i-th component on; st carries the
\* checks, the cooldown dict, remediation_count and the invocation log.
RECURSIVE AttemptRemediationsFrom(_, _, _)
AttemptRemediationsFrom(i, st, env) ==
    IF i > Len(ComponentOrder) THEN st
    ELSE LET component == ComponentOrder[i]
             check == st.checks[component]
         IN  IF /\ NeedsRemediation(check.status)
                /\ ShouldAttemptRemediation(component, st.cooldown, now)
             THEN LET success == AttemptRemediation(component, env)
                  IN  AttemptRemediationsFrom(i + 1,
                        [checks |-> [st.checks EXCEPT ![component] =
                                        [check EXCEPT !.remediation_attempted = TRUE,
                                                      !.remediation_successful = success]],
                         cooldown |-> Put(st.cooldown, component, now),
                         count |-> IF success THEN st.count + 1 ELSE st.count,
                         log |-> Put(st.log, component,
                                     Append(Get(st.log, component, <<>>), now)),
                         reprobes |-> Put(st.reprobes, component,
                                          Reprobe(remediation_handlers[component], env)),
                         returned |-> Put(st.returned, component,
                                          RunRemediationHandler(
                                              remediation_handlers[component], env))],
                        env)
             ELSE AttemptRemediationsFrom(i + 1, st, env)

\* _add_to_history(check) for each check, in probe order; the list holds the
\* same HealthCheck objects that _attempt_remediations updates afterwards.
RECURSIVE AddToHistoryFrom(_, _, _)
AddToHistoryFrom(i, history, checks) ==
    IF i > Len(ComponentOrder) THEN history
    ELSE LET appended == Append(history, checks[ComponentOrder[i]])
         IN  AddToHistoryFrom(i + 1,
                              IF Len(appended) > max_history_size
                              THEN Tail(appended) ELSE appended,
                              checks)

\* As the probes, but without their except clause.
ProbeStatus_Propagate(outcome) == outcome

\* The status in the result of a _check_* probe whose body finds a status or
\* raises: the except clause of each probe returns a result with UNKNOWN.
ProbeStatus(outcome) == IF outcome = Raise THEN UNKNOWN ELSE outcome

\* perform_health_check(); probe gives what each probe finds.  The call
\* waits at its first lock region for as long as the lock is held.
PerformHealthCheckBody(probe, env) ==
    LET checks == [c \in Components |-> HealthCheck(c, ProbeStatus(probe[c]))]
        st == AttemptRemediationsFrom(1,
                 [checks |-> checks, cooldown |-> remediation_cooldown,
                  count |-> remediation_count, log |-> remediation_log,
                  reprobes |-> EmptyDict, returned |-> EmptyDict], env)
        swept == IF /\ hm_resource_manager
                    /\ st.checks["memory_usage"].remediation_attempted
                    /\ remediation_handlers["memory_usage"] = "_remediate_memory_usage"
                 THEN CleanupEach(active_resources, release_calls,
                                  StaleNames(active_resources, now))
                 ELSE [res |-> active_resources, calls |-> release_calls]
    IN  /\ hm_lock = "free"
        /\ current_health' = [c \in DOMAIN current_health \cup Components |-> st.checks[c]]
        /\ check_count' = check_count + 1
        /\ last_full_check' = now
        /\ health_history' = AddToHistoryFrom(1, health_history, st.checks)
        /\ remediation_cooldown' = st.cooldown
        /\ remediation_count' = st.count
        /\ remediation_log' = st.log
        /\ active_resources' = swept.res
        /\ release_calls' = swept.calls
        /\ hm_last' = [op |-> "perform_health_check", probe |-> probe,
                       reprobes |-> st.reprobes, returned |-> st.returned,
                       ret |-> st.checks]
        /\ UNCHANGED <<hm_resource_manager, remediation_handlers, hm_setups, hm_ticks,
                       hm_lock, cleanup_handlers, rm_next_id, rm_ticks,
                       rm_last, pc, local, rm_lock, rm_overwritten>>

\* perform_health_check() called by the application
PerformHealthCheck(probe, env) ==
    /\ check_count < MaxCycles
    /\ PerformHealthCheckBody(probe, env)
    /\ UNCHANGED <<callVars, monVars, now, ehVars>>

\* register_remediation_handler(component, handler) with an application handler
RegisterRemediationHandler(component) ==
    /\ hm_setups < MaxSetups
    /\ remediation_handlers' = Put(remediation_handlers, component, "custom")
    /\ hm_setups' = hm_setups + 1
    /\ UNCHANGED <<callVars, monVars, now, ehVars, rmVars, hm_resource_manager, current_health,
                   health_history, remediation_cooldown, check_count,
                   remediation_count, last_full_check, remediation_log, hm_ticks,
                   hm_lock, hm_last>>

\* Time passes between two check cycles; successive advances count as one.
HealthTick(d) ==
    /\ hm_ticks < check_count
    /\ now' = now + d
    /\ hm_ticks' = check_count
    /\ UNCHANGED <<callVars, monVars, ehVars, rmVars, hm_resource_manager, current_health,
                   health_history, remediation_handlers, remediation_cooldown,
                   check_count, remediation_count, last_full_check,
                   remediation_log, hm_setups, hm_lock, hm_last>>

\* As _get_overall_status, but testing for WARNING before CRITICAL.
OverallStatus_WarningFirst(health) ==
    LET statuses == {health[c].status : c \in DOMAIN health}
    IN  IF DOMAIN health = {} THEN UNKNOWN
        ELSE IF WARNING \in statuses THEN WARNING
        ELSE IF CRITICAL \in statuses THEN CRITICAL
        ELSE IF UNKNOWN \in statuses THEN UNKNOWN
        ELSE HEALTHY

\* The value _get_overall_status computes from current_health inside its lock.
OverallStatus(health) ==
    LET statuses == {health[c].status : c \in DOMAIN health}
    IN  IF DOMAIN health = {} THEN UNKNOWN
        ELSE IF CRITICAL \in statuses THEN CRITICAL
        ELSE IF WARNING \in statuses THEN WARNING
        ELSE IF UNKNOWN \in statuses THEN UNKNOWN
        ELSE HEALTHY

\* _get_overall_status() called while the lock is in state lock: the lock is a
\* threading.Lock, so the call blocks when it is held, also by its own caller.
GetOverallStatusUnder(lock) ==
    IF lock = "free"
    THEN [blocked |-> FALSE, ret |-> OverallStatus(current_health)]
    ELSE [blocked |-> TRUE, ret |-> "Blocked"]

\* _get_overall_status() called from outside the monitor
GetOverallStatus ==
    LET r == GetOverallStatusUnder(hm_lock)
    IN  /\ ~r.blocked
        /\ hm_last' = [op |-> "_get_overall_status", ret |-> r.ret,
                       components |-> [c \in DOMAIN current_health |->
                                          current_health[c].status]]
        /\ UNCHANGED <<callVars, monVars, now, ehVars, rmVars, hm_resource_manager, current_health,
                       health_history, remediation_handlers, remediation_cooldown,
                       check_count, remediation_count, last_full_check,
                       remediation_log, hm_setups, hm_ticks, hm_lock>>

\* get_health_report(): takes the lock, then calls _get_overall_status() with
\* the lock held; a call that is blocked there keeps the lock.
GetHealthReport ==
    LET held == "get_health_report"
        overall == GetOverallStatusUnder(held)
    IN  /\ hm_lock = "free"
        /\ IF overall.blocked
           THEN /\ hm_lock' = held
                /\ hm_last' = [op |-> "get_health_report", ret |-> "Blocked"]
           ELSE /\ hm_lock' = "free"
                /\ hm_last' = [op |-> "get_health_report", ret |-> "Returned",
                               overall_status |-> overall.ret,
                               check_count |-> check_count,
                               remediation_count |-> remediation_count,
                               components |-> [c \in DOMAIN current_health |->
                                                  current_health[c].status]]
        /\ UNCHANGED <<callVars, monVars, now, ehVars, rmVars, hm_resource_manager, current_health,
                       health_history, remediation_handlers, remediation_cooldown,
                       check_count, remediation_count, last_full_check,
                       remediation_log, hm_setups, hm_ticks>>

AllHealthy == [c \in Components |-> HEALTHY]

\* What the probes of one cycle find: everything healthy, or one component
\* in a state that calls for remediation.
ProbeResults ==
    {AllHealthy,
     [AllHealthy EXCEPT !["memory_usage"] = CRITICAL],
     [AllHealthy EXCEPT !["service_status"] = WARNING]}

\* The outcomes worth drawing for a cycle with these probe results.
HealthEnvs(probe) ==
    [reprobe : IF probe["memory_usage"] = HEALTHY /\ probe["audio_system"] = HEALTHY
               THEN {HEALTHY} ELSE {HEALTHY, CRITICAL},
     fails : IF probe["audio_system"] = HEALTHY THEN {FALSE} ELSE {FALSE, TRUE},
     custom : IF \E c \in DOMAIN remediation_handlers :
                    remediation_handlers[c] = "custom" /\ probe[c] # HEALTHY
              THEN {True, False, Raise} ELSE {False}]

HealthTickSizes == {cooldown_period, cooldown_period + 1}

\* perform_health_check() on thread t up to the call of _attempt_remediations:
\* the probes, the update of current_health under the lock and the appends
\* to the history; base is the length of the history before the appends.
CheckBegin(t, probe) ==
    LET checks == [c \in Components |-> HealthCheck(c, ProbeStatus(probe[c]))]
    IN  /\ hm_checkers[t].pc = "idle"
        /\ hm_checkers[t].cycles < MaxConcurrentCycles
        /\ hm_lock = "free"
        /\ current_health' = [c \in DOMAIN current_health \cup Components |-> checks[c]]
        /\ check_count' = check_count + 1
        /\ last_full_check' = now
        /\ health_history' = AddToHistoryFrom(1, health_history, checks)
        /\ hm_current_by' = t
        /\ hm_checkers' = [hm_checkers EXCEPT ![t] =
                               [pc |-> "remediate", cycles |-> @.cycles + 1,
                                probe |-> probe, checks |-> checks, i |-> 1,
                                base |-> Len(health_history)]]
        /\ UNCHANGED <<hm_resource_manager, remediation_handlers, remediation_cooldown,
                       remediation_count, remediation_log, hm_setups, hm_ticks, hm_lock,
                       hm_last, glVars, heVars, sgVars, enVars, retry, critical, now, ehVars, rmVars, monVars>>

\* The first component from the i-th on whose result passes the status test
\* and the test of _should_attempt_remediation; past the last when none does.
RECURSIVE NextDue(_, _, _, _)
NextDue(i, checks, cooldown, current_time) ==
    IF i > Len(ComponentOrder) THEN i
    ELSE IF /\ NeedsRemediation(checks[ComponentOrder[i]].status)
            /\ ShouldAttemptRemediation(ComponentOrder[i], cooldown, current_time)
         THEN i
         ELSE NextDue(i + 1, checks, cooldown, current_time)

\* The loop of _attempt_remediations on thread t, up to and including the
\* first pair of tests that pass; when none passes the call ends.
RemediationTest(t) ==
    LET me == hm_checkers[t]
        due == NextDue(me.i, me.checks, remediation_cooldown, now)
    IN  /\ me.pc = "remediate"
        /\ hm_checkers' = [hm_checkers EXCEPT ![t] =
                               IF due > Len(ComponentOrder)
                               THEN [pc |-> "idle", cycles |-> me.cycles]
                               ELSE [me EXCEPT !.pc = "attempt", !.i = due]]
        /\ UNCHANGED <<hm_current_by, hmVars, glVars, heVars, sgVars, enVars, retry, critical, now, ehVars,
                       rmVars, monVars>>

\* _attempt_remediation on thread t for the component whose tests passed:
\* the cooldown entry is written, the handler invoked, and the flags of the
\* thread's HealthCheck object set, which the history holds and, unless
\* another thread has replaced it since, current_health as well.  The
\* history stays below its capacity in these runs, so the object is still at
\* the place where it was appended.
RemediationAttempt(t, env) ==
    LET me == hm_checkers[t]
        component == ComponentOrder[me.i]
        success == AttemptRemediation(component, env)
        check == [me.checks[component] EXCEPT !.remediation_attempted = TRUE,
                                              !.remediation_successful = success]
        swept == IF /\ hm_resource_manager
                    /\ remediation_handlers[component] = "_remediate_memory_usage"
                 THEN CleanupEach(active_resources, release_calls,
                                  StaleNames(active_resources, now))
                 ELSE [res |-> active_resources, calls |-> release_calls]
    IN  /\ me.pc = "attempt"
        /\ remediation_cooldown' = Put(remediation_cooldown, component, now)
        /\ remediation_log' = Put(remediation_log, component,
                                  Append(Get(remediation_log, component, <<>>), now))
        /\ remediation_count' = IF success THEN remediation_count + 1
                                ELSE remediation_count
        /\ health_history' = [health_history EXCEPT ![me.base + me.i] = check]
        /\ current_health' = IF hm_current_by = t
                             THEN [current_health EXCEPT ![component] = check]
                             ELSE current_health
        /\ active_resources' = swept.res
        /\ release_calls' = swept.calls
        /\ hm_checkers' = [hm_checkers EXCEPT ![t] =
                               [me EXCEPT !.pc = "remediate", !.i = me.i + 1,
                                          !.checks = [me.checks EXCEPT ![component] = check]]]
        /\ UNCHANGED <<hm_current_by, hm_resource_manager, remediation_handlers,
                       check_count, last_full_check, hm_setups, hm_ticks, hm_lock, hm_last,
                       cleanup_handlers, rm_next_id, rm_ticks, rm_last, pc, local, rm_lock,
                       rm_overwritten, glVars, heVars, sgVars, enVars, retry, critical, now, ehVars, monVars>>

\* Check cycles one after another, the clock advancing in between.
NextHealth ==
    \/ \E probe \in ProbeResults : \E env \in HealthEnvs(probe) :
          PerformHealthCheck(probe, env)
    \/ RegisterRemediationHandler("service_status")
    \/ \E d \in HealthTickSizes : HealthTick(d)

\* What the probes of one cycle find in the remediation runs: each status
\* and an exception for a component with a default handler, and a warning
\* for one without.
RemediationProbeResults ==
    {AllHealthy,
     [AllHealthy EXCEPT !["memory_usage"] = WARNING],
     [AllHealthy EXCEPT !["memory_usage"] = Raise],
     [AllHealthy EXCEPT !["memory_usage"] = CRITICAL, !["service_status"] = WARNING],
     [AllHealthy EXCEPT !["audio_system"] = CRITICAL, !["gui_system"] = WARNING]}

\* Check cycles one after another over these results, the clock advancing in
\* between, with or without a handler registered by the application.
NextRemediation ==
    \/ \E probe \in RemediationProbeResults : \E env \in HealthEnvs(probe) :
          check_count < MaxRemediationCycles /\ PerformHealthCheck(probe, env)
    \/ RegisterRemediationHandler("service_status")
    \/ \E d \in HealthTickSizes : HealthTick(d)

\* The statuses each probe can return, for the probes varied in the status
\* runs; the other probes find their component healthy.
ProbeStatuses(c) ==
    CASE c = "memory_usage" -> {HEALTHY, WARNING, CRITICAL, UNKNOWN}
      [] c = "audio_system" -> {HEALTHY, CRITICAL, UNKNOWN}
      [] c = "service_status" -> {HEALTHY, WARNING, UNKNOWN}
      [] OTHER -> {HEALTHY}

StatusProbeResults ==
    {[c \in Components |->
         CASE c = "memory_usage" -> m
           [] c = "audio_system" -> a
           [] c = "service_status" -> v
           [] OTHER -> HEALTHY] :
     m \in ProbeStatuses("memory_usage"), a \in ProbeStatuses("audio_system"),
     v \in ProbeStatuses("service_status")}

\* Check cycles over every combination of statuses, each followed by status
\* and report calls.
NextReport ==
    \/ \E probe \in StatusProbeResults : \E env \in HealthEnvs(probe) :
          check_count < MaxReportCycles /\ PerformHealthCheck(probe, env)
    \/ GetOverallStatus
    \/ GetHealthReport

-----------------------------------------------------------------------------
(* The monitoring loops: HealthMonitor and ResourceManager start_monitoring,
   stop_monitoring and _monitoring_loop, which have the same shape *)

Monitors == {"health", "resource"}

NoThread == 0

CallIdle == [op |-> "idle"]

\* The part of both constructors that concerns the loop.
InitMonitoring ==
    /\ monitoring_active = [m \in Monitors |-> FALSE]
    /\ monitoring_thread = [m \in Monitors |-> NoThread]
    /\ workers = <<>>
    /\ mon_call = CallIdle
    /\ mon_starts = 0
    /\ mon_cycles = [m \in Monitors |-> 0]
    /\ mon_last = [op |-> "none"]

\* The loop threads of monitor m that have not returned from _monitoring_loop.
Alive(m) == {w \in DOMAIN workers : workers[w].monitor = m /\ workers[w].pc # "done"}

\* start_monitoring(interval)
StartMonitoring(m) ==
    /\ mon_call = CallIdle
    /\ mon_starts < MaxStarts
    /\ mon_starts' = mon_starts + 1
    /\ IF monitoring_active[m]
       THEN /\ mon_last' = [op |-> "start", monitor |-> m, was_active |-> TRUE,
                            created |-> FALSE]
            /\ UNCHANGED <<monitoring_active, monitoring_thread, workers>>
       ELSE /\ monitoring_active' = [monitoring_active EXCEPT ![m] = TRUE]
            /\ workers' = Append(workers, [monitor |-> m, pc |-> "test", hung |-> FALSE])
            /\ monitoring_thread' = [monitoring_thread EXCEPT ![m] = Len(workers) + 1]
            /\ mon_last' = [op |-> "start", monitor |-> m, was_active |-> FALSE,
                            created |-> TRUE]
    /\ UNCHANGED <<callVars, now, ehVars, rmVars, hmVars, mon_call, mon_cycles>>

\* stop_monitoring() up to its join: clears the flag and, if a thread was ever
\* started, waits for the last one.
StopMonitoring(m) ==
    /\ mon_call = CallIdle
    /\ monitoring_active' = [monitoring_active EXCEPT ![m] = FALSE]
    /\ IF monitoring_thread[m] # NoThread
       THEN /\ mon_call' = [op |-> "stop", monitor |-> m, thread |-> monitoring_thread[m]]
            /\ UNCHANGED mon_last
       ELSE /\ mon_call' = CallIdle
            /\ mon_last' = [op |-> "stop", monitor |-> m, joined |-> FALSE,
                            thread_pc |-> "none"]
    /\ UNCHANGED <<callVars, now, ehVars, rmVars, hmVars, monitoring_thread, workers, mon_starts,
                   mon_cycles>>

\* join(timeout=...) returns because the thread has ended.
JoinReturns ==
    /\ mon_call.op = "stop"
    /\ workers[mon_call.thread].pc = "done"
    /\ mon_call' = CallIdle
    /\ mon_last' = [op |-> "stop", monitor |-> mon_call.monitor, joined |-> TRUE,
                    thread_pc |-> "done"]
    /\ UNCHANGED <<callVars, now, ehVars, rmVars, hmVars, monitoring_active, monitoring_thread,
                   workers, mon_starts, mon_cycles>>

\* As the join of stop_monitoring, but join() without a timeout.
JoinIsBounded_NoTimeout == FALSE

\* Whether the join of stop_monitoring gives up waiting: join(timeout=10) in
\* the health monitor, join(timeout=5) in the resource manager.
JoinIsBounded == TRUE

\* join(timeout=...) returns because the timeout has elapsed; stop_monitoring
\* then returns with the thread still running.  The timeout is seconds long:
\* it elapses only on a thread that is inside an iteration or asleep.
JoinTimesOut ==
    /\ mon_call.op = "stop"
    /\ JoinIsBounded
    /\ workers[mon_call.thread].pc \in {"cycle", "sleep"}
    /\ mon_call' = CallIdle
    /\ mon_last' = [op |-> "stop", monitor |-> mon_call.monitor, joined |-> FALSE,
                    thread_pc |-> workers[mon_call.thread].pc,
                    thread_hung |-> workers[mon_call.thread].hung]
    /\ UNCHANGED <<callVars, now, ehVars, rmVars, hmVars, monitoring_active, monitoring_thread,
                   workers, mon_starts, mon_cycles>>

\* As the loop test, but `while True`.
LoopContinues_Always(m) == TRUE

\* while self.monitoring_active
LoopContinues(m) == monitoring_active[m]

\* The loop thread w evaluates its while test: it begins an iteration, whose
\* probes may never finish (hung), or it returns from _monitoring_loop.
LoopTest(w) ==
    LET m == workers[w].monitor
    IN  /\ workers[w].pc = "test"
        /\ IF LoopContinues(m)
           THEN /\ mon_cycles[m] < MaxLoopCycles
                /\ mon_cycles' = [mon_cycles EXCEPT ![m] = @ + 1]
                /\ \E hung \in BOOLEAN :
                      workers' = [workers EXCEPT ![w].pc = "cycle", ![w].hung = hung]
           ELSE /\ workers' = [workers EXCEPT ![w].pc = "done"]
                /\ UNCHANGED mon_cycles
        /\ UNCHANGED <<callVars, now, ehVars, rmVars, hmVars, monitoring_active, monitoring_thread,
                       mon_call, mon_starts, mon_last>>

\* The iteration of the health loop completes: perform_health_check() has
\* run, then the thread sleeps (an exception is caught, and it sleeps too).
HealthCycleEnds(w) ==
    /\ workers[w].pc = "cycle"
    /\ workers[w].monitor = "health"
    /\ ~workers[w].hung
    /\ check_count < MaxCycles
    /\ \E env \in HealthEnvs(AllHealthy) : PerformHealthCheckBody(AllHealthy, env)
    /\ workers' = [workers EXCEPT ![w].pc = "sleep"]
    /\ UNCHANGED <<callVars, now, ehVars, monitoring_active, monitoring_thread, mon_call,
                   mon_starts, mon_cycles, mon_last>>

\* The iteration of the resource loop completes: _check_memory_usage(), which
\* sweeps when memory is high, _check_resource_age(), _check_system_health(),
\* then the thread sleeps.
ResourceCycleEnds(w) ==
    /\ workers[w].pc = "cycle"
    /\ workers[w].monitor = "resource"
    /\ ~workers[w].hung
    /\ \E memory_high \in BOOLEAN :
          LET r1 == IF memory_high
                    THEN CleanupEach(active_resources, release_calls,
                                     StaleNames(active_resources, now))
                    ELSE [res |-> active_resources, calls |-> release_calls]
              r2 == CleanupEach(r1.res, r1.calls, OldNames(r1.res, now))
          IN  /\ active_resources' = r2.res
              /\ release_calls' = r2.calls
    /\ workers' = [workers EXCEPT ![w].pc = "sleep"]
    /\ UNCHANGED <<callVars, now, ehVars, hmVars, cleanup_handlers, rm_next_id, rm_ticks, rm_last,
                   pc, local, rm_lock, rm_overwritten, monitoring_active, monitoring_thread,
                   mon_call,
                   mon_starts, mon_cycles, mon_last>>

\* time.sleep(interval) returns.
WakeUp(w) ==
    /\ workers[w].pc = "sleep"
    /\ workers' = [workers EXCEPT ![w].pc = "test"]
    /\ UNCHANGED <<callVars, now, ehVars, rmVars, hmVars, monitoring_active, monitoring_thread,
                   mon_call, mon_starts, mon_cycles, mon_last>>

\* A step of some loop thread.
WorkerStep ==
    \E w \in DOMAIN workers :
        LoopTest(w) \/ HealthCycleEnds(w) \/ ResourceCycleEnds(w) \/ WakeUp(w)

\* start and stop calls made one after another on one thread, on one of the
\* two monitors in a run, with the loop threads running at any speed.
NextMonitor ==
    \/ \E m \in Monitors :
          /\ \A other \in Monitors \ {m} : monitoring_thread[other] = NoThread
          /\ StartMonitoring(m)
    \/ \E m \in Monitors :
          /\ \A other \in Monitors \ {m} : monitoring_thread[other] = NoThread
          /\ StopMonitoring(m)
    \/ JoinReturns
    \/ JoinTimesOut
    \/ \E w \in DOMAIN workers : LoopTest(w)
    \/ \E w \in DOMAIN workers : HealthCycleEnds(w)
    \/ \E w \in DOMAIN workers : ResourceCycleEnds(w)
    \/ \E w \in DOMAIN workers : WakeUp(w)

\* The monitor is constructed with or without a resource manager.
InitHealth ==
    /\ now = StartTime
    /\ InitErrorHandler
    /\ InitResourceManager
    /\ InitHealthMonitor
    /\ hm_resource_manager \in BOOLEAN
    /\ InitMonitoring
    /\ InitCalls

SpecHealth == InitHealth /\ [][NextHealth]_vars

SpecReport == InitHealth /\ [][NextReport]_vars

SpecRemediation == InitHealth /\ [][NextRemediation]_vars

\* perform_health_check on the loop worker and on a caller's thread at once.
NextConcurrentChecks ==
    \/ \E t \in CheckThreads, probe \in ProbeResults : CheckBegin(t, probe)
    \/ \E t \in CheckThreads : RemediationTest(t)
    \/ \E t \in CheckThreads :
          \E env \in HealthEnvs(IF hm_checkers[t].pc = "attempt"
                                THEN hm_checkers[t].probe ELSE AllHealthy) :
             RemediationAttempt(t, env)

SpecConcurrentChecks == InitHealth /\ [][NextConcurrentChecks]_vars


-----------------------------------------------------------------------------
(* Specifications of the error handler *)

Init ==
    /\ now = StartTime
    /\ InitErrorHandler
    /\ InitResourceManager
    /\ InitHealthMonitor
    /\ hm_resource_manager = FALSE
    /\ InitMonitoring
    /\ InitCalls

\* The outcomes worth drawing for the callbacks that exist in this state: a
\* callback that is not registered is never invoked, its outcome is fixed.
EnvsNow ==
    [handler : IF \E k \in DOMAIN recovery_handlers : recovery_handlers[k] = "custom"
               THEN {True, False, Raise} ELSE {True},
     fallback : IF fallback_handlers = {} THEN {"ok"} ELSE {"ok", Raise},
     feature : IF "feature_manager" \in attrs THEN {"ok", Raise, "reenter"} ELSE {"ok"},
     manager : IF attrs \cap {"audio_manager", "config_manager"} = {}
               THEN {"ok"} ELSE {"ok", Raise},
     cleanup : IF "resource_manager" \in attrs THEN {"ok", Raise} ELSE {"ok"}]

\* The failures raised in the threshold runs: a VoiceControlError subclass and
\* a plain exception under the same context, hence two keys.
ThresholdFailures ==
    {<<[kind |-> "RecognitionError", action |-> RETRY], "loop">>,
     <<[kind |-> "ValueError", action |-> NoAction], "loop">>}

\* The clock advances by exactly the window, or by one second more.
TickSizes == {time_window, time_window + 1}

\* Up to MaxCalls failures of two keys, the clock advancing in between; the
\* feature manager, if any, is attached at startup.
Next ==
    \/ \E f \in ThresholdFailures, env \in EnvsNow :
          eh_calls < MaxCalls /\ HandleError(f[1], f[2], env)
    \/ \E d \in TickSizes : Tick(d)
    \/ eh_calls = 0 /\ Attach("feature_manager")

Spec == Init /\ [][Next]_vars

\* The failures raised in the dispatch runs: every class with its default
\* action (RETRY), and the base class with every action.
DispatchErrors ==
    [kind : VoiceControlErrors, action : {RETRY}]
        \cup [kind : {"VoiceControlError"}, action : RecoveryAction]
        \cup [kind : {"ValueError"}, action : {NoAction}]

\* A failure under every context, after up to MaxSetups registrations.
NextDispatch ==
    \/ \E error \in DispatchErrors, context \in Contexts, env \in EnvsNow :
          eh_calls < MaxDispatchCalls /\ HandleError(error, context, env)
    \/ \E kind \in {"VoiceControlError", "SystemError", "ValueError"} :
          RegisterRecoveryHandler(kind)
    \/ \E component \in {"recognition", "input", "loop"} :
          RegisterFallbackHandler(component)
    \/ \E a \in {"feature_manager", "resource_manager"} : Attach(a)
    \/ ResetErrorCounts

SpecDispatch == Init /\ [][NextDispatch]_vars

\* Failures of several keys, with statistics and export calls in between.
NextExport ==
    \/ \E error \in DispatchErrors, env \in EnvsNow :
          eh_calls < MaxExportCalls /\ HandleError(error, "loop", env)
    \/ GetErrorStatistics
    \/ SaveErrorReport

SpecExport == Init /\ [][NextExport]_vars

\* Calls of wrapped functions under one context, on a handler that the
\* application may have given a feature manager or a handler of its own.
MaxWrappedCalls == 2

WrappedErrors ==
    [kind : {"RecognitionError"}, action : {RETRY}]
        \cup [kind : {"VoiceControlError"}, action : {GRACEFUL_DEGRADATION}]
        \cup [kind : {"ValueError"}, action : {NoAction}]

NextWrapped ==
    \/ \E error \in WrappedErrors, fallback_value \in FallbackValues,
          raise_on_failure \in BOOLEAN, env \in EnvsNow :
          /\ eh_calls < MaxWrappedCalls
          /\ ProductionSafeExecute("loop", Raises(error), fallback_value,
                                   raise_on_failure, env)
    \/ ProductionSafeExecute("loop", Returns, None, FALSE, CHOOSE env \in EnvsNow : TRUE)
    \/ RegisterRecoveryHandler("ValueError")
    \/ Attach("feature_manager")

SpecWrapped == Init /\ [][NextWrapped]_vars

\* Check cycles of one run of the program with histories near their capacity.
MaxHistoryCycles == 2

\* The check cycles that fill the health history exactly.
FullCycles == max_history_size \div Len(ComponentOrder)

\* What the probes of one cycle find in the long-running program.
HistoryProbeResults ==
    {AllHealthy, [AllHealthy EXCEPT !["memory_usage"] = CRITICAL]}

\* A long-running program: the failure history and the health history are
\* one append short of their capacity, or at it.
InitHistory ==
    /\ now = StartTime
    /\ \E n \in {max_error_history - 1, max_error_history} :
          InitErrorHandlerWith(ErrorFill(n))
    /\ InitResourceManager
    /\ \E cycles \in {FullCycles - 1, FullCycles} : InitHealthMonitorAfter(cycles)
    /\ hm_resource_manager = FALSE
    /\ InitMonitoring
    /\ InitCalls

\* Handled failures, wrapped calls that fail and check cycles, on the
\* long-running program.
NextHistory ==
    \/ \E error \in WrappedErrors, env \in EnvsNow :
          /\ eh_calls < MaxWrappedCalls
          /\ HandleError(error, "loop", env)
    \/ \E error \in WrappedErrors, env \in EnvsNow :
          /\ eh_calls < MaxWrappedCalls
          /\ ProductionSafeExecute("loop", Raises(error), None, FALSE, env)
    \/ \E probe \in HistoryProbeResults : \E env \in HealthEnvs(probe) :
          /\ check_count < FullCycles + MaxHistoryCycles
          /\ PerformHealthCheckBody(probe, env)
          /\ UNCHANGED <<callVars, monVars, now, ehVars>>

SpecHistory == InitHistory /\ [][NextHistory]_vars

\* Failures that carry the shutdown action and failures that repeat up to the
\* threshold, on a handler that may have been given a resource manager or a
\* feature manager; after an emergency shutdown the process is gone.
ShutdownFailures ==
    {[kind |-> "VoiceControlError", action |-> SHUTDOWN],
     [kind |-> "RecognitionError", action |-> RETRY]}

NextShutdown ==
    \/ \E error \in ShutdownFailures, env \in EnvsNow :
          /\ ~shutdown_event
          /\ eh_calls < MaxCalls
          /\ HandleError(error, "loop", env)
    \/ \E a \in {"resource_manager", "feature_manager"} :
          ~shutdown_event /\ eh_calls = 0 /\ Attach(a)
    \/ EmergencyShutdown

SpecShutdown == Init /\ [][NextShutdown]_vars

\* Failures that carry the degradation action and failures that repeat up to
\* the threshold, on a handler that may have been given a feature manager.
DegradationFailures ==
    {[kind |-> "VoiceControlError", action |-> GRACEFUL_DEGRADATION],
     [kind |-> "RecognitionError", action |-> RETRY]}

NextDegradation ==
    \/ \E error \in DegradationFailures, env \in EnvsNow :
          eh_calls < MaxCalls /\ HandleError(error, "loop", env)
    \/ eh_calls = 0 /\ Attach("feature_manager")

SpecDegradation == Init /\ [][NextDegradation]_vars

\* Failures and successes of one component, reported to the handler directly
\* and through the two decorators that keep the component's label.
NextLabels ==
    \/ \E error \in WrappedErrors, env \in EnvsNow :
          eh_calls < MaxWrappedCalls /\ HandleError(error, "loop", env)
    \/ \E error \in WrappedErrors, env \in EnvsNow :
          /\ eh_calls < MaxWrappedCalls
          /\ ProductionSafeExecute("loop", Raises(error), None, FALSE, env)
    \/ \E error \in WrappedErrors, env \in EnvsNow :
          eh_calls < MaxWrappedCalls /\ CriticalOperationOnce("loop", Raises(error), env)
    \/ ProductionSafeExecute("loop", Returns, None, FALSE, CHOOSE env \in EnvsNow : TRUE)
    \/ CriticalOperationOnce("loop", Returns, CHOOSE env \in EnvsNow : TRUE)

SpecLabels == Init /\ [][NextLabels]_vars

\* Calls, one after another, of a function decorated with
\* retry_on_failure(max_retries, delay).
NextRetry ==
    \/ \E max_retries \in 0..MaxRetries, delay \in Delays : RetryCall(max_retries, delay)
    \/ \E outcome \in RetryOutcomes : RetryAttempt(outcome)

SpecRetry == Init /\ [][NextRetry]_vars

\* Calls of a function decorated with critical_operation(context="loop"), on
\* a handler that the application may have given a feature manager.
NextCritical ==
    \/ \E max_retries \in 0..MaxCriticalRetries, retry_delay \in Delays :
          CriticalCall("loop", max_retries, retry_delay)
    \/ \E outcome \in {Returns} \cup {Raises(error) : error \in WrappedErrors},
          env \in EnvsNow : CriticalAttempt(outcome, env)
    \/ Attach("feature_manager")

SpecCritical == Init /\ [][NextCritical]_vars

\* Two threads call the two accessors, their steps interleaved.
NextAccessors ==
    \/ \E t \in AccessorThreads, a \in Accessors : AccessorTest(t, a)
    \/ \E t \in AccessorThreads : AccessorConstruct(t)
    \/ \E t \in AccessorThreads : AccessorReturn(t)

SpecAccessors == Init /\ [][NextAccessors]_vars

\* The main thread registers and releases resources and adds shutdown hooks;
\* a signal arrives at any point.
NextSignals ==
    \/ \E op \in LockedOps, name \in ResourceNames, cleanup \in Behaviours :
          MainLockedBegin(op, name, cleanup)
    \/ MainLockedEnd
    \/ \E behaviour \in Behaviours : WhileRunning(AddCleanupHandler(behaviour))
    \/ \E signum \in Signals : DeliverSignal(signum)

SpecSignals == Init /\ [][NextSignals]_vars

-----------------------------------------------------------------------------
(* VoiceControlEngine.shutdown and ResourceManager.cleanup_all.  The
   application registers engine.shutdown as a shutdown hook of the registry,
   and the body of engine.shutdown calls cleanup_all: the two call each other.
   Each is an operator on the state c the chain works on, the registry's
   resources, hooks and release counts and the engine's flags; depth is the
   number of cleanup_all calls on the stack. *)

\* The hooks the application and the engine register.
EngineHooks == <<"engine.shutdown", "_cleanup_components">>

\* What logging_manager.save_diagnostic_report does inside shutdown.
ReportOutcomes == {"ok", Raise}

\* As the clear, but on a registry that keeps its registrations.
Cleared_Kept(res) == res

\* self.active_resources.clear()
Cleared(res) == <<>>

\* The state a call of the chain starts from.
ChainState ==
    [res |-> active_resources, handlers |-> cleanup_handlers, calls |-> release_calls,
     shutdown_requested |-> engine.shutdown_requested, running |-> engine.running,
     bodies |-> engine.bodies, components |-> engine.components,
     depth |-> 0, max_depth |-> 0, cleanups |-> 0, released |-> <<>>]

RECURSIVE Shutdown(_, _)
RECURSIVE CleanupAllFrom(_, _)
RECURSIVE RunHooks(_, _, _)

\* engine.shutdown(): returns at once when shutdown_requested is set; else
\* sets it, clears running, saves the report and calls cleanup_all, all inside
\* a try that logs what is raised.
Shutdown(c, report) ==
    IF c.shutdown_requested THEN c
    ELSE LET body == [c EXCEPT !.shutdown_requested = TRUE, !.running = FALSE,
                               !.bodies = @ + 1]
         IN  IF report = Raise THEN body ELSE CleanupAllFrom(body, report)

\* cleanup_all(): releases the snapshot, clears the registry, runs the hooks.
CleanupAllFrom(c, report) ==
    LET resources_to_cleanup == c.res
        released == ReleaseAllFrom(resources_to_cleanup)
        entered == [c EXCEPT !.calls = InvokeAll(@, released.attempted),
                             !.released = @ \o Ids(released.attempted),
                             !.res = Cleared(resources_to_cleanup),
                             !.cleanups = @ + 1,
                             !.depth = @ + 1,
                             !.max_depth = IF c.depth + 1 > @ THEN c.depth + 1 ELSE @]
        hooked == RunHooks(entered, 1, report)
    IN  [hooked EXCEPT !.depth = @ - 1]

\* The hook loop of cleanup_all from handler i on, each hook inside its own
\* try: the shutdown hook is engine.shutdown, _cleanup_components stops the
\* monitor and the tray and calls nothing of the registry.
RunHooks(c, i, report) ==
    IF i > Len(c.handlers) THEN c
    ELSE LET handler == c.handlers[i]
             after == IF handler = "engine.shutdown" THEN Shutdown(c, report)
                      ELSE IF handler = "_cleanup_components"
                           THEN [c EXCEPT !.components = @ + 1]
                           ELSE c
         IN  RunHooks(after, i + 1, report)

\* The state a call of the chain leaves behind.
ChainEnds(op, c) ==
    /\ active_resources' = c.res
    /\ release_calls' = c.calls
    /\ rm_last' = [op |-> "cleanup_all_chain"]
    /\ engine' = [engine EXCEPT !.shutdown_requested = c.shutdown_requested,
                                !.running = c.running,
                                !.bodies = c.bodies,
                                !.components = c.components,
                                !.calls_made = @ + 1,
                                !.last = [op |-> op,
                                          before |-> Ids(active_resources),
                                          bodies_before |-> engine.bodies,
                                          depth |-> c.depth,
                                          max_depth |-> c.max_depth,
                                          cleanups |-> c.cleanups,
                                          released |-> c.released]]
    /\ UNCHANGED <<cleanup_handlers, rm_next_id, rm_ticks, pc, local, rm_lock,
                   rm_overwritten, retry, critical, glVars, hcVars, heVars, sgVars,
                   now, ehVars, hmVars, monVars>>

\* run_voice_control_safely creates the engine and registers engine.shutdown
\* as a shutdown hook.
EngineCreate ==
    /\ ~engine.created
    /\ cleanup_handlers' = Append(cleanup_handlers, EngineHooks[1])
    /\ rm_last' = [op |-> "add_cleanup_handler"]
    /\ engine' = [engine EXCEPT !.created = TRUE]
    /\ UNCHANGED <<active_resources, rm_next_id, release_calls, rm_ticks, pc, local,
                   rm_lock, rm_overwritten, retry, critical, glVars, hcVars, heVars,
                   sgVars, now, ehVars, hmVars, monVars>>

\* engine.start(): sets running and, in _start_core_components, registers
\* _cleanup_components as a shutdown hook.
EngineStart ==
    /\ engine.created /\ ~engine.started /\ ~engine.shutdown_requested
    /\ cleanup_handlers' = Append(cleanup_handlers, EngineHooks[2])
    /\ rm_last' = [op |-> "add_cleanup_handler"]
    /\ engine' = [engine EXCEPT !.started = TRUE, !.running = TRUE]
    /\ UNCHANGED <<active_resources, rm_next_id, release_calls, rm_ticks, pc, local,
                   rm_lock, rm_overwritten, retry, critical, glVars, hcVars, heVars,
                   sgVars, now, ehVars, hmVars, monVars>>

\* A call of engine.shutdown(), as in the finally of run_daemon.
ShutdownCall(report) ==
    /\ engine.created
    /\ engine.calls_made < MaxShutdownCalls
    /\ \E c \in {Shutdown(ChainState, report)} : ChainEnds("shutdown", c)

\* A call of cleanup_all() on the registry the engine's hooks are in, as in
\* the finally of main.
CleanupAllCall(report) ==
    /\ engine.created
    /\ engine.calls_made < MaxShutdownCalls
    /\ \E c \in {CleanupAllFrom(ChainState, report)} : ChainEnds("cleanup_all", c)

\* The application creates and starts the engine, registers resources, and
\* calls engine.shutdown() and cleanup_all() in any order.
NextEngine ==
    \/ EngineCreate
    \/ EngineStart
    \/ \E name \in ResourceNames, cleanup \in Behaviours : RegisterResource(name, cleanup)
    \/ \E report \in ReportOutcomes : ShutdownCall(report)
    \/ \E report \in ReportOutcomes : CleanupAllCall(report)

SpecEngine == Init /\ [][NextEngine]_vars

\* The failure the threads report: one kind, under one context.
ConcurrentErrors == {error \in WrappedErrors : error.kind = "RecognitionError"}

\* Two threads call handle_error, their steps interleaved, all calls inside
\* one time window.
NextConcurrentErrors ==
    \/ \E t \in HandlerThreads, error \in ConcurrentErrors, env \in EnvsNow :
          /\ Len(eh_entries) < MaxConcurrentCalls
          /\ HandleErrorEnter(t, error, "loop", env)
    \/ \E t \in HandlerThreads, env \in EnvsNow : HandleErrorRecover(t, env)

SpecConcurrentErrors == Init /\ [][NextConcurrentErrors]_vars

\* The memory check run over resources registered at different times, whose
\* cleanup functions return or raise.
NextSampler ==
    \/ \E name \in ResourceNames, cleanup \in Behaviours : RegisterResource(name, cleanup)
    \/ \E first \in MemoryReadings, second \in MemoryReadings :
          (first.raises => second = first) /\ CheckMemoryUsage(first, second)
    \/ \E d \in {stale_after, stale_after + 1} : RegistryTick(d)

SpecSampler == Init /\ [][NextSampler]_vars

SpecRegistry == Init /\ [][NextRegistry]_vars

SpecRegistryThreads == Init /\ [][NextRegistryThreads]_vars

\* Registry calls made one after another over resources whose cleanup
\* function returns, raises, or calls get_resource_stats() on the registry.
NextReentrant ==
    \/ \E name \in ResourceNames, cleanup \in Behaviours \cup {"reenter"} :
          RegisterResource(name, cleanup)
    \/ \E name \in ResourceNames : CleanupResource(name)
    \/ CleanupAll
    \/ TriggerMemoryCleanup
    \/ RegistryTick(stale_after + 1)

SpecReentrant == Init /\ [][NextReentrant]_vars

\* The loop threads keep being scheduled while one of them can take a step
\* (each runs a bounded number of iterations, so none is passed over for
\* ever), and a bounded join gives up when its timeout has elapsed.
SpecMonitor ==
    /\ Init
    /\ [][NextMonitor]_vars
    /\ WF_vars(WorkerStep)
    /\ WF_vars(JoinReturns \/ JoinTimesOut)

-----------------------------------------------------------------------------
(* Properties of the error handler *)

\* Position of the first occurrence of x in the sequence s, 0 if none.
IndexOf(s, x) ==
    IF \E i \in DOMAIN s : s[i] = x
    THEN CHOOSE i \in DOMAIN s : s[i] = x /\ \A j \in 1..(i - 1) : s[j] # x
    ELSE 0

\* The key of the last handle_error call.
LastKey == ErrorKey(eh_last.error, eh_last.context)

\* The last call was made with its counter staying below the threshold.
BelowThreshold == eh_last.called /\ eh_last.count_before + 1 < error_threshold

(* C1: once error_threshold same-key failures have followed one another, each
   inside the time window of the one before, that call and every later such
   call takes the critical path; the critical path attempts graceful
   degradation first, attempts the shutdown sequence only after degradation
   did not succeed, and handle_error returns False when shutdown was run.
   _graceful_degradation returns True whenever it returns, so no run takes
   the shutdown branch of _handle_critical_error; the conjuncts about
   shutdown state what that branch does if it is taken. *)
C1_ThresholdTakesCriticalPath ==
    eh_last.called =>
        /\ eh_last.streak >= error_threshold => eh_last.path = "critical"
        /\ eh_last.path = "critical" =>
              /\ eh_last.trace # <<>>
              /\ Head(eh_last.trace) = "degradation"
              /\ "handler" \notin {eh_last.trace[i] : i \in DOMAIN eh_last.trace}
              /\ IndexOf(eh_last.trace, "shutdown") > 0 =>
                    /\ IndexOf(eh_last.trace, "degradation") < IndexOf(eh_last.trace, "shutdown")
                    /\ eh_last.ret = False

\* A sixth failure in a row inside the window has taken the critical path.
C1_Witness ==
    /\ eh_last.called
    /\ eh_last.streak = error_threshold + 1
    /\ eh_last.path = "critical"
    /\ Head(eh_last.trace) = "degradation"

(* C2: when the gap between two failures of the same key exceeds the time
   window, the later failure leaves the counter of that key at 1. *)
C2_CounterResetsAfterWindow ==
    (eh_last.called /\ eh_last.gap_exceeded) => error_counts[LastKey] = 1

(* C3: a handle_error call whose counter stays below the threshold never
   raises, returns a bool and appends exactly one record to the history,
   whatever the strategies and the feature-flag callback do. *)
C3_HandleNeverRaises ==
    BelowThreshold => /\ eh_last.ret \in {True, False}
                      /\ eh_last.recorded = 1

(* C4: when the recovery strategy registered for the failure's kind raises,
   handle_error does not raise, returns False and records recovery_success
   False. *)
C4_RaisingStrategyIsFailure ==
    (BelowThreshold /\ eh_last.strategy = Raise) =>
        /\ eh_last.ret = False
        /\ eh_last.recorded = 1
        /\ ~error_history[Len(error_history)].recovery_success

(* C5: every handle_error call that returns, the critical path included,
   appends one record of the failure to the history, and the history loses a
   record only by eviction of the oldest ones past max_error_history. *)
C5_EveryFailureRecorded ==
    [][IF eh_calls' = eh_calls + 1 /\ eh_last'.ret \in {True, False}
       THEN /\ error_history' # <<>>
            /\ error_history' =
                  LastN(Append(error_history, error_history'[Len(error_history')]),
                        max_error_history)
            /\ error_history'[Len(error_history')].error_type = eh_last'.error.kind
            /\ error_history'[Len(error_history')].context = eh_last'.context
       ELSE error_history' = error_history]_vars

(* C15: whatever path handle_error takes, a degradation callback that calls
   a statistics call on the same handler completes: no handle_error call is
   left blocked on the handler's own lock. *)
C15_CallbacksOutsideLock ==
    eh_last.called => eh_last.ret # "Blocked"

(* C13: the diagnostic export completes, and the snapshot it wrote, parsed
   back, carries the per-key counts and the total that the statistics call
   returns at export time. *)
C13_ExportRoundTrips ==
    eh_report.op = "save_error_report" =>
        /\ eh_report.ret = "Returned"
        /\ eh_report.parsed.error_counts = eh_report.live.error_counts
        /\ eh_report.parsed.total_errors = eh_report.live.total_errors

-----------------------------------------------------------------------------
(* Properties of the resource registry *)

(* C7: over any interleaving of register, cleanup_resource, cleanup_all and
   the stale-resource sweep on different threads, the cleanup function of each
   registration is invoked at most once. *)
C7_ReleasedAtMostOnce ==
    \A id \in DOMAIN release_calls : release_calls[id] <= 1

(* C8: cleanup_all attempts the cleanup function of every registered resource,
   a raising one not preventing the others, does not raise, leaves the
   registry empty, and then runs every shutdown hook in registration order, a
   raising hook not preventing the later ones. *)
C8_CleanupAllIsolates ==
    rm_last.op = "cleanup_all" =>
        /\ rm_last.invoked = Ids(rm_last.before)
        /\ \A i \in DOMAIN rm_last.before : release_calls[rm_last.before[i].id] = 1
        /\ rm_last.ret = "None"
        /\ active_resources = <<>>
        /\ rm_last.hooks_run = [i \in 1..Len(cleanup_handlers) |-> i]

\* cleanup_all has run over two resources, the first one's cleanup function
\* raising, and over two hooks, the first one raising.
C8_Witness ==
    /\ rm_last.op = "cleanup_all"
    /\ Len(rm_last.before) = 2
    /\ rm_last.before[1].cleanup = Raise
    /\ release_calls[rm_last.before[2].id] = 1
    /\ Len(cleanup_handlers) = 2
    /\ cleanup_handlers[1] = Raise
    /\ rm_last.hooks_run = <<1, 2>>

(* C9: a cleanup_all call that directly follows a cleanup_all call invokes no
   cleanup function and no shutdown hook and leaves the registry unchanged. *)
C9_SecondCleanupAllIsNoOp ==
    (rm_last.op = "cleanup_all" /\ rm_last.after = "cleanup_all") =>
        /\ rm_last.invoked = <<>>
        /\ rm_last.hooks_run = <<>>
        /\ active_resources = rm_last.before

(* C10 as claimed: cleanup_resource on a registered name invokes its cleanup
   function exactly once, removes the entry and returns True; on a name that
   is not registered it returns False and invokes nothing. *)
C10_FirstCleanupReturnsTrue ==
    rm_last.op = "cleanup_resource" =>
        IF rm_last.name \in Names(rm_last.before)
        THEN /\ rm_last.invoked = <<Lookup(rm_last.before, rm_last.name).id>>
             /\ release_calls[Lookup(rm_last.before, rm_last.name).id] = 1
             /\ rm_last.name \notin Names(active_resources)
             /\ rm_last.ret = True
        ELSE /\ rm_last.invoked = <<>>
             /\ rm_last.ret = False
             /\ active_resources = rm_last.before

(* C10 as amended: cleanup_resource on a registered name invokes its cleanup
   function exactly once and removes the entry, also when the function
   raises; it returns True when the function returned and False when it
   raised.  On a name that is not registered (any later call) it returns
   False, invokes nothing and leaves the registry as it is. *)
C10_CleanupResourceOnce ==
    rm_last.op = "cleanup_resource" =>
        IF rm_last.name \in Names(rm_last.before)
        THEN /\ rm_last.invoked = <<Lookup(rm_last.before, rm_last.name).id>>
             /\ release_calls[Lookup(rm_last.before, rm_last.name).id] = 1
             /\ rm_last.name \notin Names(active_resources)
             /\ rm_last.ret = IF Lookup(rm_last.before, rm_last.name).cleanup = Raise
                              THEN False ELSE True
        ELSE /\ rm_last.invoked = <<>>
             /\ rm_last.ret = False
             /\ active_resources = rm_last.before

\* cleanup_resource has removed a resource whose cleanup function raised.
C10_Witness ==
    /\ rm_last.op = "cleanup_resource"
    /\ rm_last.name \in Names(rm_last.before)
    /\ Lookup(rm_last.before, rm_last.name).cleanup = Raise
    /\ rm_last.ret = False
    /\ rm_last.name \notin Names(active_resources)

-----------------------------------------------------------------------------
(* Properties of the health monitor *)

(* C6: over any sequence of check cycles run one after another, two
   invocations of the remediation handler of the same component are more than
   cooldown_period apart, whatever the probes find in between and whether the
   attempts succeeded, failed or raised. *)
C6_RemediationRespectsCooldown ==
    \A c \in DOMAIN remediation_log :
        \A i, j \in DOMAIN remediation_log[c] :
            i < j => remediation_log[c][j] - remediation_log[c][i] > cooldown_period

\* The results of component c in the history, oldest first.
HistoryOf(c) == SelectSeq(health_history, LAMBDA check : check.component = c)

\* A component was probed critical in three cycles: remediated in the first,
\* left alone inside the cooldown in the second, remediated again in the third.
C6_Witness ==
    \E c \in Components :
        /\ Len(HistoryOf(c)) = 3
        /\ \A i \in 1..3 : HistoryOf(c)[i].status \in {WARNING, CRITICAL}
        /\ HistoryOf(c)[1].remediation_attempted
        /\ ~HistoryOf(c)[2].remediation_attempted
        /\ HistoryOf(c)[3].remediation_attempted
        /\ Len(remediation_log[c]) = 2

\* The order of precedence of the statuses.
Rank(status) ==
    CASE status = CRITICAL -> 3
      [] status = WARNING -> 2
      [] status = UNKNOWN -> 1
      [] OTHER -> 0

(* C11: the aggregate status _get_overall_status returns is the worst of the
   component statuses of the snapshot under Critical > Warning > Unknown >
   Healthy: the status of some component, and no component has a worse one. *)
C11_OverallIsWorstStatus ==
    (hm_last.op = "_get_overall_status" /\ DOMAIN hm_last.components # {}) =>
        /\ \E c \in DOMAIN hm_last.components : hm_last.components[c] = hm_last.ret
        /\ \A c \in DOMAIN hm_last.components :
              Rank(hm_last.components[c]) <= Rank(hm_last.ret)

\* The aggregate was Critical with a Warning, an Unknown and five Healthy
\* components beside the Critical one.
C11_Witness ==
    /\ hm_last.op = "_get_overall_status"
    /\ hm_last.ret = CRITICAL
    /\ DOMAIN hm_last.components = Components
    /\ hm_last.components["memory_usage"] = CRITICAL
    /\ hm_last.components["service_status"] = WARNING
    /\ hm_last.components["audio_system"] = UNKNOWN

(* C12: get_health_report, called after any number of completed check cycles,
   returns, and the report carries the aggregate of the current snapshot as
   its overall status and the number of completed cycles as its check count. *)
C12_ReportReturns ==
    [][(hm_last' # hm_last /\ hm_last'.op = "get_health_report") =>
          /\ hm_last'.ret = "Returned"
          /\ hm_last'.overall_status = OverallStatus(current_health')
          /\ hm_last'.check_count = check_count']_vars

(* C16: a cleanup function that calls the statistics call on the same
   registry completes, whether cleanup_resource, cleanup_all or the
   stale-resource sweep invokes it: no registry call is left blocked on the
   registry's own lock. *)
C16_ReleaseOutsideLock ==
    rm_lock = "free"

-----------------------------------------------------------------------------
(* Properties of the monitoring loops *)

(* C14: under any sequence of start and stop calls and any timing of the loop
   threads, a start call made while monitoring_active is set creates no
   thread, and at most one loop thread of a monitor is inside an iteration or
   between two iterations at any time. *)
C14_AtMostOneLoopWorker ==
    /\ (mon_last.op = "start" /\ mon_last.was_active) => ~mon_last.created
    /\ \A m \in Monitors :
          Cardinality({w \in Alive(m) : workers[w].pc \in {"cycle", "sleep"}}) <= 1

\* No start call can follow, and monitor m is stopped.
Stopped(m) == mon_starts = MaxStarts /\ ~monitoring_active[m]

(* C17: a loop thread begins an iteration only when its while test found
   monitoring_active set; and once a monitor is stopped with no start to
   follow, each of its loop threads whose probes finish returns from
   _monitoring_loop, a thread inside an iteration completing it first. *)
C17_StopEndsTheLoop ==
    /\ [][\A w \in DOMAIN workers :
            (workers[w].pc = "test" /\ workers'[w].pc = "cycle")
                => monitoring_active[workers[w].monitor]]_vars
    /\ [][\A w \in DOMAIN workers :
            (workers[w].pc = "cycle" /\ workers'[w].pc # "cycle")
                => workers'[w].pc = "sleep"]_vars
    /\ \A m \in Monitors :
          Stopped(m) ~> (\A w \in Alive(m) : workers[w].hung)

\* A loop thread that was inside an iteration when stop was called has
\* completed it and returned, the monitor being stopped.
C17_Witness ==
    /\ mon_last.op = "stop"
    /\ mon_last.thread_pc = "cycle"
    /\ Stopped(mon_last.monitor)
    /\ Alive(mon_last.monitor) = {}
    /\ workers # <<>>

(* C18: a stop call always returns, also when the loop thread is inside a
   probe or sweep that never finishes. *)
C18_StopReturns ==
    (mon_call.op = "stop") ~> (mon_call = CallIdle)

\* stop has returned while the loop thread was inside an iteration that never
\* finishes.
C18_Witness ==
    /\ mon_last.op = "stop"
    /\ ~mon_last.joined
    /\ mon_last.thread_pc = "cycle"
    /\ mon_last.thread_hung
    /\ mon_call = CallIdle

(* C19: a call of a wrapped function that fails lets an exception out only
   when recovery failed (handle_error returned False) and raise_on_failure was
   set; otherwise the call returns fallback_value, with the failure recorded
   in error_history. *)
C19_PropagatesOnlyOnOptIn ==
    (eh_wrap.op = "production_safe_execute" /\ eh_wrap.raised) =>
        IF eh_wrap.handle_error = False /\ eh_wrap.raise_on_failure
        THEN eh_wrap.ret \in {Raise} \cup FallbackValues
        ELSE /\ eh_wrap.ret = eh_wrap.fallback_value
             /\ eh_wrap.propagated = None
             /\ eh_wrap.recorded >= 1

\* The calls of the wrapped function that raised an exception the wrapper catches.
AllCaught(calls) == \A i \in 1..Len(calls) : calls[i].outcome = "caught"

(* C20: a call of a function wrapped by retry_on_failure calls the function at
   most max_retries + 1 times; once a call succeeds its result is returned and
   no later call is made; the call that follows failed attempt k (counted
   from 0) is made delay * 2^k after it; and when max_retries + 1 attempts
   have failed the failure of the last one is raised. *)
C20_RetryBackoff ==
    retry.status # "idle" =>
        LET calls == retry.calls
            n == Len(calls)
        IN  /\ n <= retry.max_retries + 1
            /\ \A i \in 1..n : calls[i].attempt = i - 1
            /\ \A i \in 1..n : calls[i].outcome = "ok" =>
                  /\ i = n
                  /\ retry.status = "returned"
                  /\ retry.ret = [kind |-> "result", attempt |-> i - 1]
            /\ retry.status = "returned" => n >= 1 /\ calls[n].outcome = "ok"
            /\ \A i \in 1..n :
                  i < n => /\ calls[i].outcome = "caught"
                           /\ calls[i + 1].at - calls[i].at = retry.delay * (2 ^ (i - 1))
            /\ (n = retry.max_retries + 1 /\ AllCaught(calls)) =>
                  /\ retry.status = "raised"
                  /\ retry.ret = [kind |-> "exception", attempt |-> n - 1]
            /\ (retry.status = "running" /\ n >= 1) => calls[n].outcome = "caught"

\* Three retries were made, each after twice the wait of the one before, every
\* attempt failed, and the last failure was raised.
C20_Witness ==
    /\ retry.status = "raised"
    /\ retry.max_retries = 3
    /\ Len(retry.calls) = 4
    /\ AllCaught(retry.calls)
    /\ retry.calls[4].at - retry.calls[3].at = 4 * retry.delay
    /\ retry.ret = [kind |-> "exception", attempt |-> 3]

(* C21: register_resource on a name that is registered replaces the entry
   without calling the cleanup function of the entry it replaces, and no
   registry call made afterwards (cleanup_resource, cleanup_all, the sweeps)
   calls it: the replaced entry is gone from the registry and its cleanup
   function has been called as often as when it was replaced. *)
C21_OverwrittenNeverReleased ==
    \A id \in DOMAIN rm_overwritten :
        /\ Get(release_calls, id, 0) = rm_overwritten[id]
        /\ \A i \in DOMAIN active_resources : active_resources[i].id # id

\* An entry was replaced, and a later call released the entry that replaced it.
C21_Witness ==
    /\ rm_overwritten # EmptyDict
    /\ rm_last.op \in {"cleanup_all", "cleanup_resource", "_trigger_memory_cleanup"}
    /\ rm_last.invoked # <<>>
    /\ \E id \in DOMAIN release_calls : id \notin DOMAIN rm_overwritten /\ release_calls[id] >= 1

\* The registrations of a registry not accessed for more than the staleness
\* window at time t, and the others.
Unaccessed(res, t) == {i \in DOMAIN res : t - res[i].last_accessed > stale_after}
Accessed(res, t) == DOMAIN res \ Unaccessed(res, t)

(* C22: _check_memory_usage never raises; when it measures more than
   max_memory_mb it collects garbage, then releases exactly the resources not
   accessed for more than 600 s, each once and removing it, and then measures
   again, whether or not a cleanup function or the second measurement
   raises. *)
C22_CeilingBreachSweeps ==
    rm_last.op = "_check_memory_usage" =>
        /\ rm_last.ret = None
        /\ (~rm_last.first.raises /\ rm_last.first.mb > max_memory_mb) =>
              LET before == rm_last.before
                  t == rm_last.at
              IN  /\ rm_last.trace = <<"memory_info", "gc.collect",
                                       "_cleanup_old_resources", "memory_info">>
                  /\ {rm_last.invoked[i] : i \in DOMAIN rm_last.invoked}
                        = {before[i].id : i \in Unaccessed(before, t)}
                  /\ Len(rm_last.invoked) = Cardinality(Unaccessed(before, t))
                  /\ {active_resources[i].id : i \in DOMAIN active_resources}
                        = {before[i].id : i \in Accessed(before, t)}

\* Memory was above the ceiling with one resource stale, whose cleanup function
\* raises, and one resource recently registered: only the stale one is gone.
C22_Witness ==
    /\ rm_last.op = "_check_memory_usage"
    /\ ~rm_last.first.raises /\ rm_last.first.mb > max_memory_mb
    /\ rm_last.second.raises
    /\ Len(rm_last.before) = 2
    /\ Len(rm_last.invoked) = 1
    /\ Len(active_resources) = 1
    /\ \E i \in DOMAIN rm_last.before :
          rm_last.before[i].id = rm_last.invoked[1] /\ rm_last.before[i].cleanup = Raise

\* The invocations of the remediation handler of component c so far.
Invocations(log, c) == Len(Get(log, c, <<>>))

(* C23: in a check cycle the remediation handler of a component is invoked,
   once, if and only if the probe found the component in warning or critical
   status, a handler is registered for it, and it was never attempted or its
   last attempt is more than cooldown_period ago; in particular it is not
   invoked for a healthy or unknown result. *)
C23_RemediationInvokedIffDue ==
    [][check_count' = check_count + 1 =>
          \A c \in Components :
              LET due == /\ current_health'[c].status \in {WARNING, CRITICAL}
                         /\ c \in DOMAIN remediation_handlers
                         /\ \/ c \notin DOMAIN remediation_cooldown
                            \/ now - remediation_cooldown[c] > cooldown_period
              IN  Invocations(remediation_log', c) =
                     Invocations(remediation_log, c) + (IF due THEN 1 ELSE 0)]_vars

\* Two cycles no more than cooldown_period apart: memory was critical in both and
\* remediated in the first only; the service, which has no handler, was in
\* warning status and left alone.
C23_Witness ==
    /\ check_count = 2
    /\ Len(HistoryOf("memory_usage")) = 2
    /\ \A i \in 1..2 : HistoryOf("memory_usage")[i].status = CRITICAL
    /\ HistoryOf("memory_usage")[1].remediation_attempted
    /\ ~HistoryOf("memory_usage")[2].remediation_attempted
    /\ Invocations(remediation_log, "memory_usage") = 1
    /\ "service_status" \notin DOMAIN remediation_handlers
    /\ HistoryOf("service_status")[2].status = WARNING
    /\ Invocations(remediation_log, "service_status") = 0

(* C24, as stated: in a check cycle remediation_attempted is set on the
   result of exactly the components whose handler was invoked,
   remediation_successful is never set without it, and every invocation is
   followed by a second probe of the component that decides
   remediation_successful: a healthy second probe means success, a critical
   one failure. *)
C24_ReprobeDecidesSuccess ==
    [][check_count' = check_count + 1 =>
          \A c \in Components :
              LET check == current_health'[c]
                  invoked == Invocations(remediation_log', c)
                                = Invocations(remediation_log, c) + 1
              IN  /\ check.remediation_attempted <=> invoked
                  /\ check.remediation_successful => check.remediation_attempted
                  /\ invoked =>
                        /\ hm_last'.reprobes[c] # NotProbed
                        /\ hm_last'.reprobes[c] = HEALTHY => check.remediation_successful
                        /\ hm_last'.reprobes[c] = CRITICAL => ~check.remediation_successful]_vars

(* C24, amended: in a check cycle remediation_attempted is set on the result
   of exactly the components whose handler was invoked, remediation_successful
   is never set without it, and remediation_successful is set exactly when
   the handler returned True (not when it returned False or raised).  Only
   two handlers probe their component again: _remediate_audio_system, unless
   one of its commands failed, returns whether the second probe is healthy,
   and _remediate_memory_usage, when the monitor has a resource manager,
   returns whether the second probe is not critical; without a second probe
   they return False, as the handlers of speech recognition, GUI and input
   always do; a handler registered by the application is not followed by a
   second probe. *)
C24_SuccessIsHandlerResult ==
    [][check_count' = check_count + 1 =>
          \A c \in Components :
              LET check == current_health'[c]
                  invoked == Invocations(remediation_log', c)
                                = Invocations(remediation_log, c) + 1
              IN  /\ check.remediation_attempted <=> invoked
                  /\ check.remediation_successful => check.remediation_attempted
                  /\ invoked =>
                        LET handler == remediation_handlers[c]
                            second == hm_last'.reprobes[c]
                            returned == hm_last'.returned[c]
                        IN  /\ check.remediation_successful <=> returned = True
                            /\ CASE handler = "_remediate_audio_system" ->
                                      returned = IF second = HEALTHY THEN True ELSE False
                                 [] handler = "_remediate_memory_usage" ->
                                      /\ second # NotProbed <=> hm_resource_manager
                                      /\ returned = IF second \notin {NotProbed, CRITICAL}
                                                    THEN True ELSE False
                                 [] handler = "custom" -> second = NotProbed
                                 [] OTHER -> second = NotProbed /\ returned = False]_vars

\* One cycle remediated memory, whose second probe was healthy, and the
\* service, whose handler returned True without a second probe.
C24_Witness ==
    /\ hm_last.op = "perform_health_check"
    /\ hm_last.reprobes = [memory_usage |-> HEALTHY, service_status |-> NotProbed]
    /\ current_health["memory_usage"].remediation_successful
    /\ current_health["service_status"].remediation_successful
    /\ current_health["service_status"].status = WARNING

(* C25: below the threshold handle_error recovers through exactly one stage:
   the handler registered for exactly the class of the failure if there is
   one; otherwise the recovery_action of the failure if it has one; otherwise
   the default recovery (graceful degradation).  The handler invoked is never
   one registered for another class. *)
C25_DispatchOrder ==
    (eh_last.called /\ eh_last.path = "normal") =>
        LET kind == eh_last.error.kind
            action == eh_last.error.action
        IN  eh_last.route =
               IF kind \in eh_last.registered THEN << <<"handler", kind>> >>
               ELSE IF action # NoAction THEN << <<"action", action>> >>
               ELSE << <<"default", "graceful_degradation">> >>

(* C26: when handle_error(failure, context) has returned, the label of
   context in component_states is "unhealthy"; and when an operation of a
   component succeeds while its label is "unhealthy" or "critical", the label
   is "healthy" afterwards. *)
C26_LabelFollowsOutcome ==
    [][/\ (eh_calls' = eh_calls + 1 /\ eh_last'.ret \in {True, False}) =>
             Get(component_states', eh_last'.context, None) = "unhealthy"
       /\ (/\ eh_wrap'.op \in {"production_safe_execute", "critical_operation"}
           /\ ~eh_wrap'.raised
           /\ eh_wrap'.label_before \in {"unhealthy", "critical"}) =>
             Get(component_states', eh_wrap'.context, None) = "healthy"]_vars

\* The callbacks and stages a handle_error call went through.
Stages(call) == {call.trace[i] : i \in DOMAIN call.trace}

(* C27: whenever handle_error runs the shutdown action, for a failure that
   carries it or on the critical path, it calls cleanup_all() of the resource
   registry, the handler's shutdown event is set afterwards, and the call
   returns False. *)
C27_ShutdownReleasesAndSignals ==
    (eh_last.called /\ "shutdown" \in Stages(eh_last)) =>
        /\ "cleanup_all" \in Stages(eh_last)
        /\ IsShutdownRequested
        /\ eh_last.ret = False

(* C28: whenever handle_error runs graceful degradation, as the action of a
   failure or on the critical path, on a handler that has a feature manager,
   it calls disable_non_essential() and the degradation reports success:
   handle_error returns True, whether the callback returns, raises or calls
   back into the handler. *)
C28_DegradationAlwaysSucceeds ==
    (eh_last.called /\ "degradation" \in Stages(eh_last)) =>
        /\ "feature_manager" \in attrs => "disable_non_essential" \in Stages(eh_last)
        /\ eh_last.ret = True

(* C29: every perform_health_check() call returns a dict with one result for
   each of the eight components, whose status is what the probe found, or
   UNKNOWN if the probe raised; the call does not raise, leaves each returned
   result as the component's entry of current_health, and increases
   check_count by exactly one. *)
C29_CheckCoversEveryComponent ==
    [][(\/ check_count' # check_count
        \/ (hm_last' # hm_last /\ hm_last'.op = "perform_health_check")) =>
          /\ hm_last'.op = "perform_health_check"
          /\ check_count' = check_count + 1
          /\ DOMAIN hm_last'.ret = Components
          /\ Cardinality(Components) = 8
          /\ \A c \in Components :
                /\ hm_last'.ret[c].component = c
                /\ hm_last'.ret[c].status =
                      IF hm_last'.probe[c] = Raise THEN UNKNOWN ELSE hm_last'.probe[c]
                /\ current_health'[c] = hm_last'.ret[c]]_vars

\* The second of two cycles: the memory probe, which had found the component
\* critical, raised; its entry of current_health is the UNKNOWN result.
C29_Witness ==
    /\ check_count = 2
    /\ hm_last.op = "perform_health_check"
    /\ hm_last.probe["memory_usage"] = Raise
    /\ HistoryOf("memory_usage")[1].status = CRITICAL
    /\ current_health["memory_usage"].status = UNKNOWN
    /\ hm_last.ret["memory_usage"] = current_health["memory_usage"]

(* C30: the failure history and the health-check history never hold more
   than their capacity (1000 entries each), and an operation that appends
   leaves each history as the most recent entries, in arrival order, of the
   old history followed by the new entries: what is lost is lost from the
   oldest end. *)
C30_HistoriesBounded ==
    [][/\ Len(error_history') <= max_error_history
       /\ Len(health_history') <= max_history_size
       /\ error_history' # error_history =>
             \E k \in 1..2 :
                /\ Len(error_history') >= k
                /\ error_history' =
                      LastN(error_history \o
                                SubSeq(error_history', Len(error_history') - k + 1,
                                       Len(error_history')),
                            max_error_history)
                /\ \A i \in (Len(error_history') - k + 1)..Len(error_history') :
                      /\ error_history'[i].timestamp = now
                      /\ error_history'[i].error_type = eh_last'.error.kind
       /\ health_history' # health_history =>
             health_history' =
                LastN(health_history \o
                          [i \in 1..Len(ComponentOrder) |->
                              hm_last'.ret[ComponentOrder[i]]],
                      max_history_size)]_vars

\* Both histories are at capacity after appends in this run: the oldest
\* record of each is gone and the newest results come last.
C30_Witness ==
    /\ Len(error_history) = max_error_history
    /\ error_history[1].timestamp > 0
    /\ error_history[max_error_history].timestamp = StartTime
    /\ Len(health_history) = max_history_size
    /\ check_count > FullCycles
    /\ hm_last.op = "perform_health_check"
    /\ hm_last.ret["memory_usage"].status = CRITICAL
    /\ health_history[max_history_size - Len(ComponentOrder) + 1] = hm_last.ret["memory_usage"]
    /\ health_history[1].component = "memory_usage"

\* The calls of the wrapped function that one call of the critical_operation
\* wrapper has made, and whether each of them raised.
AllRaised(calls) == \A i \in DOMAIN calls : calls[i].raised

(* C31: a call of a function wrapped by critical_operation calls the function
   at most max_retries + 1 times, a failed attempt being followed by a sleep
   of retry_delay * 2^attempt before the next one; every failed attempt is
   passed to handle_error; a call that returns has set the label of the
   context to healthy and returns the function's result; and when all
   max_retries + 1 attempts raised, the label is critical and the wrapper
   raises the last exception of the function. *)
C31_CriticalRetries ==
    critical.status # "idle" =>
        LET calls == critical.calls
            n == Len(calls)
        IN  /\ n <= critical.max_retries + 1
            /\ \A i \in 1..n : calls[i].attempt = i - 1
            /\ \A i \in 1..(n - 1) :
                  /\ calls[i].raised
                  /\ calls[i + 1].at - calls[i].at =
                        critical.retry_delay * (2 ^ calls[i].attempt)
            /\ \A i \in 1..n : calls[i].raised => calls[i].handle_error # "NotCalled"
            /\ critical.status = "returned" =>
                  /\ ~calls[n].raised
                  /\ critical.ret = [kind |-> "result", attempt |-> n - 1]
                  /\ Get(component_states, critical.context, None) = "healthy"
            /\ (n = critical.max_retries + 1 /\ AllRaised(calls)) =>
                  /\ critical.status = "raised"
                  /\ critical.ret = [kind |-> "exception", attempt |-> critical.max_retries]
                  /\ Get(component_states, critical.context, None) = "critical"

(* C32: get_error_handler and get_resource_manager each construct at most one
   instance, and every call of an accessor, from whichever thread and however
   the calls overlap, returns that instance. *)
C32_SingleInstance ==
    \A a \in Accessors :
        /\ Len(instances[a]) <= 1
        /\ \A r \in accessor_returns[a] : ~r.raised /\ r.instance = 1

(* C33: with perform_health_check running on the loop worker and on a
   caller's thread at once, the remediation handler of a component is invoked
   at most once per cooldown period: any two of its invocations are more than
   cooldown_period apart. *)
C33_OncePerCooldownAcrossThreads ==
    \A c \in Components :
        \A i \in 1..Invocations(remediation_log, c) :
            \A j \in 1..(i - 1) :
                remediation_log[c][i] - remediation_log[c][j] > cooldown_period

(* C34: with register_resource and cleanup_all running on different threads,
   every registration that the clear at the end of cleanup_all removes from
   the registry has had its cleanup function invoked. *)
C34_ClearedMeansReleased ==
    [][\A t \in Threads :
          (pc[t] = "releasing" /\ pc'[t] = "hooks") =>
              \A i \in DOMAIN active_resources :
                  Get(release_calls, active_resources[i].id, 0) >= 1]_vars

\* The passes through the lock region of handle_error for one key, in order.
EntriesOf(error_key) == SelectSeq(eh_entries, LAMBDA entry : entry.error_key = error_key)

(* C35: when several threads call handle_error with the same kind and
   context inside the window, no increment is lost: the i-th call to pass the
   lock region leaves the counter at i, so after N calls the counter is N, and
   a call takes the critical path exactly when it brings the count to
   error_threshold or above. *)
C35_NoLostIncrement ==
    \A error \in ConcurrentErrors :
        LET error_key == ErrorKey(error, "loop")
            entries == EntriesOf(error_key)
        IN  /\ Get(error_counts, error_key, 0) = Len(entries)
            /\ \A i \in DOMAIN entries :
                  /\ entries[i].count = i
                  /\ entries[i].path = "critical" <=> i >= error_threshold

\* Both threads have reported failures of one key; a call that found the
\* other thread still inside handle_error brought the count to the threshold
\* and took the critical path.
C35_Witness ==
    \E error \in ConcurrentErrors :
        LET entries == EntriesOf(ErrorKey(error, "loop"))
        IN  /\ Len(entries) = error_threshold
            /\ {entries[i].thread : i \in DOMAIN entries} = HandlerThreads
            /\ entries[error_threshold].path = "critical"
            /\ entries[error_threshold].others_inside # {}
            /\ entries[error_threshold - 1].path = "normal"

(* C36: a SIGTERM or SIGINT delivered to the main thread at any point, also
   while that thread is inside a registry call that holds the registry lock,
   ends with the registry's signal handler having completed cleanup_all and
   exited the process; the handler is never left waiting for the lock.  A
   handler that waits for a lock its own thread holds waits forever, so the
   outcome of a delivery is decided in the step that delivers it. *)
C36_SignalHandlerCompletes ==
    signal_state.delivered =>
        /\ signal_state.handler = "exited"
        /\ rm_last.op = "cleanup_all"
        /\ active_resources = <<>>

(* C37: engine.shutdown() calls cleanup_all() and is itself a shutdown hook
   of the registry.  Started from either call, the chain of calls returns
   with no call left on the stack and at most two cleanup_all calls nested,
   the body of engine.shutdown() has run at most once, and the cleanup
   function of each registered resource has been invoked at most once. *)
C37_ShutdownChainRunsOnce ==
    /\ engine.bodies <= 1
    /\ \A id \in 1..(rm_next_id - 1) : Get(release_calls, id, 0) <= 1
    /\ engine.last.op # "none" =>
          /\ engine.last.depth = 0
          /\ engine.last.max_depth <= 2
          /\ engine.last.cleanups <= 2

\* cleanup_all() was called first, on a registry that held a resource and
\* both hooks: the shutdown hook ran the body of engine.shutdown(), which
\* called cleanup_all() again, and the resource was released once.
C37_Witness ==
    /\ engine.last.op = "cleanup_all"
    /\ engine.last.before # <<>>
    /\ engine.last.bodies_before = 0
    /\ engine.bodies = 1
    /\ engine.last.max_depth = 2
    /\ engine.components = 2
    /\ \A i \in DOMAIN engine.last.before :
          Get(release_calls, engine.last.before[i], 0) = 1

(* C38: every failed attempt of an operation wrapped by
   production_safe_execute or critical_operation adds exactly one record to
   the handler's error_history. *)
C38_OneRecordPerFailedAttempt ==
    (eh_wrap.op \in {"production_safe_execute", "critical_operation"} /\ eh_wrap.raised) =>
        eh_wrap.recorded = 1

====
